---- MODULE Spec2Model ----
(***************************************************************************)
(* ConversationParser of src/src/transformer.ts: the line normalizer of    *)
(* the constructor, the line-by-line scan of parse(), extractTitle and     *)
(* calculateStatistics.                                                    *)
(*                                                                         *)
(* A string is a sequence of UTF-16 code units (what a JavaScript string   *)
(* is), so .length, substring, trim, startsWith, includes and the regular  *)
(* expressions of the source are computed on code units as the engine      *)
(* computes them.  An optional value (T | null, T | undefined) is a        *)
(* sequence of length 0 or 1.                                              *)
(***************************************************************************)
EXTENDS Integers, Sequences, FiniteSets, TLC

VARIABLES
    content,           \* this.content, as content.split('\n')
    lines,             \* this.lines
    i,                 \* loop index of parse(), 1-based
    pc,                \* "scan" | "lookahead" | "done"
    sections,          \* const sections
    currentSection,    \* let currentSection
    currentMessage,    \* let currentMessage (None = null)
    inCodeBlock,       \* let inCodeBlock
    codeBlockContent,  \* let codeBlockContent
    codeBlockLang,     \* let codeBlockLang
    userInput,         \* let userInput (live during the lookahead loop)
    statistics,        \* the statistics of the returned document (None until return)
    firstResult,       \* what an earlier parse() of this instance returned (None if none)
    metadata,          \* the metadata of the returned document (None until return)
    variant,           \* the parser that runs: 1 = src/transformer.ts, 2 = unnamed/part_000
    trace              \* history: trace[k] is the rule that consumed line k

vars == <<content, lines, i, pc, sections, currentSection, currentMessage,
          inCodeBlock, codeBlockContent, codeBlockLang, userInput, statistics,
          firstResult, metadata, variant, trace>>

\* Longest transcript, in lines, that Init draws from Pool.
MaxLines == 3

\* Longest transcript, in lines, that Init draws from DeepPool.
MaxDeepLines == 5

None == <<>>
Some(x) == <<x>>

(***************************************************************************)
(* String primitives of the JavaScript runtime.                            *)
(***************************************************************************)
\* WhiteSpace and LineTerminator code units: what \s matches and trim() strips.
IsSpace(c) ==
    \/ c \in {9, 10, 11, 12, 13, 32, 160, 5760, 8232, 8233, 8239, 8287, 12288, 65279}
    \/ c \in 8192..8202

\* \w
IsWordChar(c) == c \in 48..57 \/ c \in 65..90 \/ c = 95 \/ c \in 97..122

\* \d
IsDigit(c) == c \in 48..57

\* Does p occur in s at 1-based position k?
MatchAt(s, p, k) ==
    /\ k >= 1
    /\ k + Len(p) - 1 <= Len(s)
    /\ SubSeq(s, k, k + Len(p) - 1) = p

\* s.startsWith(p)
StartsWith(s, p) == MatchAt(s, p, 1)

\* s.includes(p)
Includes(s, p) == \E k \in 1..(Len(s) + 1) : MatchAt(s, p, k)

\* s.substring(from) with a 0-based from
Substring(s, from) ==
    IF from >= Len(s) THEN <<>> ELSE SubSeq(s, from + 1, Len(s))

\* s.trim()
Trim(s) ==
    LET keep == {k \in 1..Len(s) : ~IsSpace(s[k])}
    IN  IF keep = {} THEN <<>>
        ELSE LET first == CHOOSE k \in keep : \A m \in keep : k <= m
                 last  == CHOOSE k \in keep : \A m \in keep : k >= m
             IN  SubSeq(s, first, last)

\* Case folding of the /i flag on the ASCII letters the patterns use.
Lower(c) == IF c \in 65..90 THEN c + 32 ELSE c

LowerStr(s) == [k \in 1..Len(s) |-> Lower(s[k])]

\* Number of leading \s code units of s: the extent of a leading \s*.
LeadingSpaces(s) ==
    LET stop == {k \in 1..Len(s) : ~IsSpace(s[k])}
    IN  IF stop = {} THEN Len(s)
        ELSE (CHOOSE k \in stop : \A m \in stop : k <= m) - 1

(***************************************************************************)
(* String literals of the source.                                          *)
(***************************************************************************)
PromptMarker == <<62, 32>>                  \* '> '
Bullet == <<9679>>                          \* '●'
BulletSpace == <<9679, 32>>                 \* '● '
Arrow == <<8594>>                           \* '→'
ResultGlyph == <<9151>>                     \* '⎿'
Fence == <<96, 96, 96>>                     \* '```'
QuestionMark == <<63>>                      \* '?'
Newline == <<10>>                           \* '\n'
TwoSpaces == <<32, 32>>                     \* '  '
ThreeSpaces == <<32, 32, 32>>               \* '   '
OpenParen == <<40>>                         \* '('
Ellipsis == <<46, 46, 46>>                  \* '...'
TextLang == <<116, 101, 120, 116>>          \* 'text'
SessionStart == <<83, 101, 115, 115, 105, 111, 110, 32, 83, 116, 97, 114, 116>>
ConversationTitle == <<67, 111, 110, 118, 101, 114, 115, 97, 116, 105, 111, 110>>
GitName == <<71, 105, 116>>                 \* 'Git'
BashName == <<66, 97, 115, 104>>            \* 'Bash'
GitWord == <<103, 105, 116>>                \* 'git'
ThinkingTag == <<60, 116, 104, 105, 110, 107, 105, 110, 103, 62>>      \* '<thinking>'
ThinkingBracket == <<91, 116, 104, 105, 110, 107, 105, 110, 103, 93>>  \* '[thinking]'
ThinkingColon == <<116, 104, 105, 110, 107, 105, 110, 103, 58>>        \* 'thinking:'
ThinkingWord == <<116, 104, 105, 110, 107, 105, 110, 103>>             \* 'thinking'
ThinkingCapital == <<84, 104, 105, 110, 107, 105, 110, 103>>           \* 'Thinking'

\* The alternation of toolPattern.
ToolNames == {
    <<82, 101, 97, 100>>,                                       \* Read
    <<87, 114, 105, 116, 101>>,                                 \* Write
    <<69, 100, 105, 116>>,                                      \* Edit
    <<66, 97, 115, 104>>,                                       \* Bash
    <<71, 114, 101, 112>>,                                      \* Grep
    <<71, 108, 111, 98>>,                                       \* Glob
    <<83, 101, 97, 114, 99, 104>>,                              \* Search
    <<85, 112, 100, 97, 116, 101>>,                             \* Update
    <<84, 111, 100, 111, 87, 114, 105, 116, 101>>,              \* TodoWrite
    <<77, 117, 108, 116, 105, 69, 100, 105, 116>>,              \* MultiEdit
    <<84, 97, 115, 107>>,                                       \* Task
    <<87, 101, 98, 70, 101, 116, 99, 104>>,                     \* WebFetch
    <<87, 101, 98, 83, 101, 97, 114, 99, 104>>,                 \* WebSearch
    <<78, 111, 116, 101, 98, 111, 111, 107, 69, 100, 105, 116>>, \* NotebookEdit
    <<65, 115, 107, 85, 115, 101, 114, 81, 117, 101, 115, 116, 105, 111, 110>>, \* AskUserQuestion
    <<69, 120, 105, 116, 80, 108, 97, 110, 77, 111, 100, 101>>, \* ExitPlanMode
    <<69, 110, 116, 101, 114, 80, 108, 97, 110, 77, 111, 100, 101>>, \* EnterPlanMode
    <<75, 105, 108, 108, 83, 104, 101, 108, 108>>,              \* KillShell
    <<84, 97, 115, 107, 79, 117, 116, 112, 117, 116>>,          \* TaskOutput
    <<83, 107, 105, 108, 108>>,                                 \* Skill
    <<83, 108, 97, 115, 104, 67, 111, 109, 109, 97, 110, 100>>  \* SlashCommand
}

\* ['Write', 'Edit', 'MultiEdit', 'NotebookEdit']
UpdateTools == {
    <<87, 114, 105, 116, 101>>,
    <<69, 100, 105, 116>>,
    <<77, 117, 108, 116, 105, 69, 100, 105, 116>>,
    <<78, 111, 116, 101, 98, 111, 111, 107, 69, 100, 105, 116>>
}

\* ['Grep', 'Glob', 'Search', 'WebSearch']
SearchTools == {
    <<71, 114, 101, 112>>,
    <<71, 108, 111, 98>>,
    <<83, 101, 97, 114, 99, 104>>,
    <<87, 101, 98, 83, 101, 97, 114, 99, 104>>
}

(***************************************************************************)
(* constructor: the line normalizer.                                       *)
(***************************************************************************)
\* '.' of a pattern without the s flag matches no line terminator.
IsLineTerminator(c) == c \in {10, 13, 8232, 8233}

\* Length of the maximal run of \d from 1-based position k.
DigitRun(s, k) ==
    LET stop == {m \in k..Len(s) : ~IsDigit(s[m])}
    IN  IF stop = {} THEN Len(s) - k + 1
        ELSE (CHOOSE m \in stop : \A n \in stop : m <= n) - k

\* The prefix cut after its first digit, /^\s*\d(.*)$/ on a matching line: a
\* mutant of NormalizeLine.
NormalizeLineFirstDigit(line) ==
    LET sp   == LeadingSpaces(line)
        dg   == DigitRun(line, sp + 1)
        rest == Substring(line, sp + dg + 1)
    IN  IF /\ dg >= 1
           /\ MatchAt(line, Arrow, sp + dg + 1)
           /\ \A k \in 1..Len(rest) : ~IsLineTerminator(rest[k])
        THEN Substring(line, sp + 1)
        ELSE line

\* line => { match = line.match(/^\s*\d+→(.*)$/); return match ? match[1] : line }
NormalizeLine(line) ==
    LET sp   == LeadingSpaces(line)
        dg   == DigitRun(line, sp + 1)
        rest == Substring(line, sp + dg + 1)
    IN  IF /\ dg >= 1
           /\ MatchAt(line, Arrow, sp + dg + 1)
           /\ \A k \in 1..Len(rest) : ~IsLineTerminator(rest[k])
        THEN rest
        ELSE line

\* content.split('\n').map(...)
Normalize(raw) == [k \in 1..Len(raw) |-> NormalizeLine(raw[k])]

(***************************************************************************)
(* parse(): the tests of the if-chain of the loop body.                    *)
(***************************************************************************)
\* toolPattern.test(line): the pattern is not anchored.
ToolPatternTest(line) ==
    \E k \in 1..Len(line) :
        /\ MatchAt(line, BulletSpace, k)
        /\ \E name \in ToolNames : MatchAt(line, name \o OpenParen, k + 2)

\* Length of the maximal run of \w from 1-based position k.
WordRun(s, k) ==
    LET stop == {m \in k..Len(s) : ~IsWordChar(s[m])}
    IN  IF stop = {} THEN Len(s) - k + 1
        ELSE (CHOOSE m \in stop : \A n \in stop : m <= n) - k

\* Positions at which /● (\w+)\(/ matches.
ToolMatchPositions(line) ==
    {k \in 1..Len(line) :
        /\ MatchAt(line, BulletSpace, k)
        /\ WordRun(line, k + 2) >= 1
        /\ MatchAt(line, OpenParen, k + 2 + WordRun(line, k + 2))}

\* line.match(/● (\w+)\(([^)]*)\)?/): the leftmost match; [1] and [2] || ''.
ToolMatch(line) ==
    LET ks == ToolMatchPositions(line)
    IN  IF ks = {} THEN None
        ELSE LET k     == CHOOSE a \in ks : \A b \in ks : a <= b
                 w     == WordRun(line, k + 2)
                 from  == k + 2 + w + 1
                 close == {m \in from..Len(line) : line[m] = 41}
                 to    == IF close = {} THEN Len(line)
                          ELSE (CHOOSE a \in close : \A b \in close : a <= b) - 1
             IN  Some([toolName |-> SubSeq(line, k + 2, k + 1 + w),
                       toolArg  |-> SubSeq(line, from, to)])

\* /\bgit\b/.test(toolArg)
ContainsGitWord(toolArg) ==
    \E k \in 1..Len(toolArg) :
        /\ MatchAt(toolArg, GitWord, k)
        /\ (k = 1 \/ ~IsWordChar(toolArg[k - 1]))
        /\ (k + 3 > Len(toolArg) \/ ~IsWordChar(toolArg[k + 3]))

\* The git test on any tool: a mutant of IsGitCommand.
IsGitCommandAnyTool(toolName, toolArg) == ContainsGitWord(toolArg)

\* const isGitCommand = toolName === 'Bash' && /\bgit\b/.test(toolArg)
IsGitCommand(toolName, toolArg) == toolName = BashName /\ ContainsGitWord(toolArg)

\* The change type that takes Write for the creation of a file: a mutant of
\* ChangeType.
ChangeTypeCreate(toolName) ==
    IF toolName = <<87, 114, 105, 116, 101>> THEN "create"
    ELSE IF toolName \in UpdateTools THEN "update"
    ELSE IF toolName \in SearchTools THEN "search"
    ELSE "read"

\* The change type with 'update' as the default: a mutant of ChangeType.
ChangeTypeDefaultUpdate(toolName) ==
    IF toolName \in SearchTools THEN "search" ELSE "update"

\* The change type without the search family: a mutant of ChangeType.
ChangeTypeNoSearch(toolName) ==
    IF toolName \in UpdateTools THEN "update" ELSE "read"

\* let changeType = 'read'; if ... 'update'; else if ... 'search'
ChangeType(toolName) ==
    IF toolName \in UpdateTools THEN "update"
    ELSE IF toolName \in SearchTools THEN "search"
    ELSE "read"

\* line.match(/^\s*<thinking>/) || line.match(/^\s*\[thinking\]/i) || line.match(/^thinking:/i)
IsThinking(line) ==
    \/ MatchAt(line, ThinkingTag, LeadingSpaces(line) + 1)
    \/ MatchAt(LowerStr(line), ThinkingBracket, LeadingSpaces(line) + 1)
    \/ StartsWith(LowerStr(line), ThinkingColon)

\* line.trim().startsWith('```')
IsFence(line) == StartsWith(Trim(line), Fence)

\* The branch of the if-chain that a line of the main loop takes.
\* The rule of part_000 taking 'think' for the word: a mutant of
\* IsThinkingVariant.
IsThinkingVariantThink(line) ==
    \/ Includes(line, <<116, 104, 105, 110, 107>>)
    \/ Includes(line, <<84, 104, 105, 110, 107>>)
    \/ MatchAt(line, ThinkingTag, LeadingSpaces(line) + 1)
    \/ MatchAt(LowerStr(line), ThinkingBracket, LeadingSpaces(line) + 1)

\* The thinking rule of src/unnamed/part_000, line 175:
\* line.includes('thinking') || line.includes('Thinking')
\*   || line.match(/^\s*<thinking>/) || line.match(/^\s*\[thinking\]/i)
IsThinkingVariant(line) ==
    \/ Includes(line, ThinkingWord)
    \/ Includes(line, ThinkingCapital)
    \/ MatchAt(line, ThinkingTag, LeadingSpaces(line) + 1)
    \/ MatchAt(LowerStr(line), ThinkingBracket, LeadingSpaces(line) + 1)

\* The thinking rule of the parser that runs.
ThinkingRule(line) == IF variant = 2 THEN IsThinkingVariant(line) ELSE IsThinking(line)

Classify(line) ==
    IF StartsWith(line, PromptMarker) THEN "a"
    ELSE IF ToolPatternTest(line) THEN "b"
    ELSE IF StartsWith(line, BulletSpace) THEN "c"
    ELSE IF ThinkingRule(line) THEN "d"
    ELSE IF Includes(line, ResultGlyph) THEN "e"
    ELSE IF IsFence(line) THEN "f"
    ELSE "rest"

\* The lookahead stopping at a thinking marker as well: a mutant of
\* LookaheadContinues.
LookaheadStopsAtThinking(ls, k) ==
    /\ k + 1 <= Len(ls)
    /\ ~StartsWith(ls[k + 1], Bullet)
    /\ ~StartsWith(ls[k + 1], PromptMarker)
    /\ ~IsThinking(ls[k + 1])

\* The condition of the lookahead loop for the line after position k.
LookaheadContinues(ls, k) ==
    /\ k + 1 <= Len(ls)
    /\ ~StartsWith(ls[k + 1], Bullet)
    /\ ~StartsWith(ls[k + 1], PromptMarker)

(***************************************************************************)
(* extractTitle                                                            *)
(***************************************************************************)
\* text.split(/\s+/): the pieces between the maximal runs of whitespace; a
\* leading or trailing run leaves an empty piece, and '' splits into [''].
RECURSIVE SplitWhitespace(_)
SplitWhitespace(text) ==
    LET ws == {k \in 1..Len(text) : IsSpace(text[k])}
    IN  IF ws = {} THEN <<text>>
        ELSE LET a    == CHOOSE k \in ws : \A m \in ws : k <= m
                 rest == Substring(text, a)
                 n    == LeadingSpaces(rest)
             IN  <<SubSeq(text, 1, a - 1)>> \o SplitWhitespace(Substring(rest, n))

\* words.join(' ')
RECURSIVE JoinSpace(_)
JoinSpace(words) ==
    IF words = <<>> THEN <<>>
    ELSE IF Len(words) = 1 THEN words[1]
    ELSE words[1] \o <<32>> \o JoinSpace(Tail(words))

\* .slice(0, 6)
FirstSix(words) == SubSeq(words, 1, IF Len(words) < 6 THEN Len(words) ELSE 6)

\* private extractTitle(text: string): string
ExtractTitle(text) ==
    LET joined == JoinSpace(FirstSix(SplitWhitespace(text)))
        title  == IF Len(joined) > 50
                  THEN SubSeq(joined, 1, 47) \o Ellipsis
                  ELSE joined
    IN  IF title = <<>> THEN ConversationTitle ELSE title

(***************************************************************************)
(* calculateStatistics                                                     *)
(***************************************************************************)
\* The code points a pattern with the u flag walks over: a high surrogate
\* followed by a low surrogate is one code point.
RECURSIVE CodePoints(_)
CodePoints(s) ==
    IF s = <<>> THEN <<>>
    ELSE IF /\ Len(s) >= 2
            /\ s[1] \in 55296..56319
            /\ s[2] \in 56320..57343
         THEN <<65536 + (s[1] - 55296) * 1024 + (s[2] - 56320)>>
              \o CodePoints(Substring(s, 2))
         ELSE <<s[1]>> \o CodePoints(Tail(s))

\* The pattern without the block 2600-26FF: a mutant of IsEmoji.
IsEmojiNoSymbols(cp) ==
    \/ cp \in 128512..128591
    \/ cp \in 127744..128511
    \/ cp \in 128640..128767
    \/ cp \in 9984..10175
    \/ cp \in 65024..65039
    \/ cp \in 129280..129535
    \/ cp \in 127462..127487

\* emojiRegex
IsEmoji(cp) ==
    \/ cp \in 128512..128591      \* 1F600-1F64F
    \/ cp \in 127744..128511      \* 1F300-1F5FF
    \/ cp \in 128640..128767      \* 1F680-1F6FF
    \/ cp \in 9728..9983          \* 2600-26FF
    \/ cp \in 9984..10175         \* 2700-27BF
    \/ cp \in 65024..65039        \* FE00-FE0F
    \/ cp \in 129280..129535      \* 1F900-1F9FF
    \/ cp \in 127462..127487      \* 1F1E6-1F1FF

\* emojiRegex of src/unnamed/part_000, line 299
IsEmojiVariant(cp) ==
    \/ cp \in 127744..129535      \* 1F300-1F9FF
    \/ cp \in 9728..9983          \* 2600-26FF
    \/ cp \in 9984..10175         \* 2700-27BF
    \/ cp \in 128512..128591      \* 1F600-1F64F
    \/ cp \in 128640..128767      \* 1F680-1F6FF
    \/ cp \in 127456..127487      \* 1F1E0-1F1FF
    \/ cp \in 8960..9215          \* 2300-23FF
    \/ cp = 11088                 \* 2B50
    \/ cp \in 129536..129791      \* 1FA00-1FAFF
    \/ cp \in 129280..129535      \* 1F900-1F9FF

\* The emoji pattern of the parser that runs.
EmojiRule(cp) == IF variant = 2 THEN IsEmojiVariant(cp) ELSE IsEmoji(cp)

\* message.content.match(emojiRegex)
Emojis(text) == SelectSeq(CodePoints(text), EmojiRule)

\* for (const section of sections) for (const message of section.messages)
RECURSIVE AllMessages(_)
AllMessages(secs) ==
    IF secs = <<>> THEN <<>>
    ELSE secs[1].messages \o AllMessages(Tail(secs))

\* The count that reads the first section only: a mutant of CountCodeBlocks.
CountCodeBlocksFirst(secs) ==
    IF secs = <<>> THEN 0 ELSE Len(secs[1].codeBlocks)

\* codeBlocksCount += section.codeBlocks.length
RECURSIVE CountCodeBlocks(_)
CountCodeBlocks(secs) ==
    IF secs = <<>> THEN 0
    ELSE Len(secs[1].codeBlocks) + CountCodeBlocks(Tail(secs))

\* The count in which a git message is a tool message too: a mutant of
\* CountType.
CountTypeOrGit(ms, type) ==
    Cardinality({k \in 1..Len(ms) :
                    ms[k].type = type \/ (type = "tool" /\ ms[k].type = "git")})

\* Number of messages of ms of the given type.
CountType(ms, type) == Cardinality({k \in 1..Len(ms) : ms[k].type = type})

\* Number of occurrences of the code point cp in the sequence cps.
Occurrences(cps, cp) == Cardinality({k \in 1..Len(cps) : cps[k] = cp})

\* All emoji matches over the messages, in order.
RECURSIVE AllEmojis(_)
AllEmojis(ms) ==
    IF ms = <<>> THEN <<>>
    ELSE Emojis(ms[1].content) \o AllEmojis(Tail(ms))

\* The file test on tool and git messages: a mutant of FileMessages.
FileMessagesWithGit(ms) ==
    {k \in 1..Len(ms) :
        /\ ms[k].type \in {"tool", "git"}
        /\ ms[k].fileName # None
        /\ ms[k].fileName[1] # <<>>}

\* if (message.type === 'tool') { ...; if (message.fileName) filesModified.add(...) }
FileMessages(ms) ==
    {k \in 1..Len(ms) :
        /\ ms[k].type = "tool"
        /\ ms[k].fileName # None
        /\ ms[k].fileName[1] # <<>>}

\* private calculateStatistics(sections)
CalculateStatistics(secs) ==
    LET ms     == AllMessages(secs)
        emojis == AllEmojis(ms)
        keys   == {emojis[k] : k \in 1..Len(emojis)}
    IN  [totalMessages     |-> Len(ms),
         userMessages      |-> CountType(ms, "user"),
         assistantMessages |-> CountType(ms, "assistant"),
         thinkingMessages  |-> CountType(ms, "thinking"),
         toolMessages      |-> CountType(ms, "tool"),
         gitMessages       |-> CountType(ms, "git"),
         filesModified     |-> Cardinality({ms[k].fileName[1] : k \in FileMessages(ms)}),
         codeBlocksCount   |-> CountCodeBlocks(secs),
         emojiCounts       |-> [cp \in keys |-> Occurrences(emojis, cp)]]

(***************************************************************************)
(* extractMetadata                                                         *)
(***************************************************************************)
\* 'Claude Code Session'
SessionTitle ==
    <<67, 108, 97, 117, 100, 101, 32, 67, 111, 100, 101, 32, 83, 101, 115, 115,
      105, 111, 110>>
\* 'Claude'
ModelDefault == <<67, 108, 97, 117, 100, 101>>
\* 'Claude Opus 4.5'
ModelOpus == <<67, 108, 97, 117, 100, 101, 32, 79, 112, 117, 115, 32, 52, 46, 53>>
\* 'Claude Sonnet'
ModelSonnet == <<67, 108, 97, 117, 100, 101, 32, 83, 111, 110, 110, 101, 116>>
\* 'Opus'
OpusWord == <<79, 112, 117, 115>>
\* 'Sonnet'
SonnetWord == <<83, 111, 110, 110, 101, 116>>
\* 'C:\'
DriveRoot == <<67, 58, 92>>

\* this.lines.slice(0, 20)
HeaderLines == 20

Header(ls) == SubSeq(ls, 1, IF Len(ls) < HeaderLines THEN Len(ls) ELSE HeaderLines)

\* if (line.includes('Opus')) model = ...; if (line.includes('Sonnet')) model = ...
ModelAfter(line, model) ==
    IF Includes(line, SonnetWord) THEN ModelSonnet
    ELSE IF Includes(line, OpusWord) THEN ModelOpus
    ELSE model

RECURSIVE FoldModel(_, _)
FoldModel(ls, model) ==
    IF ls = <<>> THEN model ELSE FoldModel(Tail(ls), ModelAfter(Head(ls), model))

\* line.match(/C:\\.*|\/.*\//): the drive root, or two slashes with no line
\* terminator between them.
PathTest(line) ==
    \/ Includes(line, DriveRoot)
    \/ \E a \in 1..Len(line) : \E b \in (a + 1)..Len(line) :
           /\ line[a] = 47
           /\ line[b] = 47
           /\ \A k \in (a + 1)..(b - 1) : ~IsLineTerminator(line[k])

\* Length of the maximal run of \S from 1-based position k.
NonSpaceRun(s, k) ==
    LET stop == {m \in k..Len(s) : IsSpace(s[m])}
    IN  IF stop = {} THEN Len(s) - k + 1
        ELSE (CHOOSE m \in stop : \A n \in stop : m <= n) - k

\* Length of the root, 'C:\' or '/', of a path token that starts at k (0: none).
PathRoot(line, k) ==
    IF MatchAt(line, DriveRoot, k) /\ NonSpaceRun(line, k + 3) >= 1 THEN 3
    ELSE IF line[k] = 47 /\ NonSpaceRun(line, k + 1) >= 1 THEN 1
    ELSE 0

\* line.match(/(C:\\[^\s]+|\/[^\s]+)/): the leftmost token, [1].
PathMatch(line) ==
    LET ks == {k \in 1..Len(line) : PathRoot(line, k) > 0}
    IN  IF ks = {} THEN None
        ELSE LET k == CHOOSE a \in ks : \A b \in ks : a <= b
                 r == PathRoot(line, k)
             IN  Some(SubSeq(line, k, k + r + NonSpaceRun(line, k + r) - 1))

\* if (line.match(...)) { pathMatch = ...; if (pathMatch) projectPath = pathMatch[1] }
PathAfter(line, path) ==
    IF PathTest(line) /\ PathMatch(line) # None THEN PathMatch(line)[1] ELSE path

RECURSIVE FoldPath(_, _)
FoldPath(ls, path) ==
    IF ls = <<>> THEN path ELSE FoldPath(Tail(ls), PathAfter(Head(ls), path))

\* Positions at which /\d{4}-\d{2}-\d{2}/ matches.
DatePositions(line) ==
    {k \in 1..(Len(line) - 9) :
        /\ \A d \in {0, 1, 2, 3, 5, 6, 8, 9} : IsDigit(line[k + d])
        /\ line[k + 4] = 45
        /\ line[k + 7] = 45}

\* this.content.match(/(\d{4}-\d{2}-\d{2})/): the first date of the raw text;
\* None stands for the date that new Date() reads from the clock.
RECURSIVE FirstDate(_)
FirstDate(raw) ==
    IF raw = <<>> THEN None
    ELSE IF DatePositions(Head(raw)) # {}
    THEN LET k == CHOOSE a \in DatePositions(Head(raw)) :
                      \A b \in DatePositions(Head(raw)) : a <= b
         IN  Some(SubSeq(Head(raw), k, k + 9))
    ELSE FirstDate(Tail(raw))

\* private extractMetadata()
ExtractMetadata(raw, ls) ==
    [title       |-> SessionTitle,
     date        |-> FirstDate(raw),
     model       |-> FoldModel(Header(ls), ModelDefault),
     projectPath |-> FoldPath(Header(ls), <<>>)]

(***************************************************************************)
(* Transcripts.  Init draws the raw text from the sequences of at most     *)
(* MaxLines lines of Pool (one line for each shape the scan tells apart)   *)
(* and of at most MaxDeepLines lines of DeepPool.                          *)
(***************************************************************************)
Rep(c, n) == [k \in 1..n |-> c]

\* ' 1→> hi': a short prompt behind a line-number prefix
NumberedPromptLine == <<32, 49, 8594, 62, 32, 104, 105>>
\* '>  why?': a short question; the prompt text starts with a space
QuestionPromptLine == <<62, 32, 32, 119, 104, 121, 63>>
\* '> ' + 49 x + two spaces: 51 code units after the marker, 49 when trimmed
PaddedPromptLine == <<62, 32>> \o Rep(120, 49) \o <<32, 32>>
\* '> ' + six words of nine letters + ' etc?': the first six words join to 59
LongPromptLine ==
    <<62, 32>> \o Rep(97, 9) \o <<32>> \o Rep(98, 9) \o <<32>> \o Rep(99, 9)
    \o <<32>> \o Rep(100, 9) \o <<32>> \o Rep(101, 9) \o <<32>> \o Rep(102, 9)
    \o <<32, 101, 116, 99, 63>>
\* '● Read(.git/x)'
ReadLine == <<9679, 32, 82, 101, 97, 100, 40, 46, 103, 105, 116, 47, 120, 41>>
\* '● Bash(git st)'
GitLine == <<9679, 32, 66, 97, 115, 104, 40, 103, 105, 116, 32, 115, 116, 41>>
\* '● ok' + U+1F600
AssistantLine == <<9679, 32, 111, 107, 32, 55357, 56832>>
\* '[Thinking] x'
ThinkingLine == <<91, 84, 104, 105, 110, 107, 105, 110, 103, 93, 32, 120>>
\* '  ⎿ r'
ResultLine == <<32, 32, 9151, 32, 114>>
\* '```js'
FenceJsLine == <<96, 96, 96, 106, 115>>
\* '```'
FenceLine == <<96, 96, 96>>
\* '  x'
IndentedLine == <<32, 32, 120>>
\* ''
BlankLine == <<>>
\* '● Edit(b)'
EditLine == <<9679, 32, 69, 100, 105, 116, 40, 98, 41>>
\* '●x': the bullet with no space behind it
BareBulletLine == <<9679, 120>>

Pool == {NumberedPromptLine, QuestionPromptLine, PaddedPromptLine, LongPromptLine,
         ReadLine, GitLine, AssistantLine, ThinkingLine, ResultLine, FenceJsLine,
         FenceLine, IndentedLine, BlankLine, EditLine, BareBulletLine}

\* The shapes that longer transcripts are built from: a fence, a tool line, a
\* prompt that starts a topic, and a line that is body or continuation.
DeepPool == {FenceLine, ReadLine, QuestionPromptLine, IndentedLine}

Inputs ==
    UNION {[1..n -> Pool] : n \in 1..MaxLines}
    \cup UNION {[1..n -> DeepPool] : n \in 1..MaxDeepLines}

(***************************************************************************)
(* parse(): the objects it builds.  The field `at` of a message, a code    *)
(* block and a file change is history: the index of the line that made it. *)
(***************************************************************************)
NewSection(title) ==
    [title |-> title, messages |-> <<>>, codeBlocks |-> <<>>, fileChanges |-> <<>>]

UserMessage(text, at) ==
    [type |-> "user", content |-> text, toolName |-> None, fileName |-> None,
     isGitAction |-> None, at |-> at]

\* The tool message that keeps an empty argument as its file name,
\* fileName: toolArg: a mutant of ToolMessage.
ToolMessageEmptyName(toolName, toolArg, line, at) ==
    [type        |-> IF IsGitCommand(toolName, toolArg) THEN "git" ELSE "tool",
     toolName    |-> Some(IF IsGitCommand(toolName, toolArg) THEN GitName ELSE toolName),
     fileName    |-> Some(toolArg),
     content     |-> line,
     isGitAction |-> Some(IsGitCommand(toolName, toolArg)),
     at          |-> at]

ToolMessage(toolName, toolArg, line, at) ==
    [type        |-> IF IsGitCommand(toolName, toolArg) THEN "git" ELSE "tool",
     toolName    |-> Some(IF IsGitCommand(toolName, toolArg) THEN GitName ELSE toolName),
     fileName    |-> IF toolArg # <<>> THEN Some(toolArg) ELSE None,
     content     |-> line,
     isGitAction |-> Some(IsGitCommand(toolName, toolArg)),
     at          |-> at]

\* An assistant line kept as a message of kind system: a mutant of
\* AssistantMessage.
AssistantMessageSystem(line, at) ==
    [type |-> "system", content |-> Substring(line, 2), toolName |-> None,
     fileName |-> None, isGitAction |-> None, at |-> at]

AssistantMessage(line, at) ==
    [type |-> "assistant", content |-> Substring(line, 2), toolName |-> None,
     fileName |-> None, isGitAction |-> None, at |-> at]

ThinkingMessage(line, at) ==
    [type |-> "thinking", content |-> line, toolName |-> None, fileName |-> None,
     isGitAction |-> None, at |-> at]

\* The record made for an empty argument as well: a mutant of
\* RecordFileChange.
RecordFileChangeAlways(sec, toolName, toolArg, line, at) ==
    [sec EXCEPT !.fileChanges =
         Append(@, [fileName |-> toolArg, type |-> ChangeType(toolName),
                    details |-> line, at |-> at])]

\* if (toolArg) currentSection.fileChanges.push({fileName, type, details})
RecordFileChange(sec, toolName, toolArg, line, at) ==
    IF toolArg # <<>>
    THEN [sec EXCEPT !.fileChanges =
              Append(@, [fileName |-> toolArg, type |-> ChangeType(toolName),
                         details |-> line, at |-> at])]
    ELSE sec

\* The flush that loses the message: a mutant of Flush.
FlushLost(sec, cm) == sec

\* The flush that puts the message first: a mutant of Flush.
FlushFront(sec, cm) ==
    IF cm # None THEN [sec EXCEPT !.messages = <<cm[1]>> \o @] ELSE sec

\* The flush that writes over the last message of the section,
\* messages[messages.length - 1] = currentMessage: a mutant of Flush.
FlushOverLast(sec, cm) ==
    IF cm = None THEN sec
    ELSE IF sec.messages = <<>> THEN [sec EXCEPT !.messages = <<cm[1]>>]
    ELSE [sec EXCEPT !.messages = [@ EXCEPT ![Len(@)] = cm[1]]]

\* if (currentMessage) currentSection.messages.push(currentMessage)
Flush(sec, cm) ==
    IF cm # None THEN [sec EXCEPT !.messages = Append(@, cm[1])] ELSE sec

\* The topic test with a threshold of 5: a mutant of StartsNewTopic.
StartsNewTopicAtFive(text) == Len(text) > 5 \/ Includes(text, QuestionMark)

\* userInput.length > 50 || userInput.includes('?')
StartsNewTopic(text) == Len(text) > 50 \/ Includes(text, QuestionMark)

\* The split that does not look at the section: a mutant of ShouldSplit.
ShouldSplitEmpty(text, sec) == StartsNewTopic(text)

\* if (userInput.length > 50 || userInput.includes('?')) if (currentSection.messages.length > 0)
ShouldSplit(text, sec) == StartsNewTopic(text) /\ Len(sec.messages) > 0

\* The final push without its test: a mutant of PushSection.
PushSectionAlways(secs, sec) == Append(secs, sec)

\* if (currentSection.messages.length > 0) sections.push(currentSection)
PushSection(secs, sec) ==
    IF Len(sec.messages) > 0 THEN Append(secs, sec) ELSE secs

\* The code of a closed block, untrimmed: a mutant of BlockCode.
BlockCodeRaw(buffer) == buffer

\* code: codeBlockContent.trim()
BlockCode(buffer) == Trim(buffer)

\* codeBlockLang = line.trim().substring(3) || 'text'
FenceLanguage(line) ==
    IF Substring(Trim(line), 3) # <<>> THEN Substring(Trim(line), 3) ELSE TextLang

\* The index of the prompt line whose lookahead has reached line k.
PromptLineOf(tr, k) ==
    CHOOSE a \in 1..k : tr[a] = "a" /\ \A b \in (a + 1)..k : tr[b] # "a"

(***************************************************************************)
(* The state after new ConversationParser(content) and the declarations    *)
(* at the head of parse().                                                 *)
(***************************************************************************)
Init ==
    /\ content \in Inputs
    /\ lines = Normalize(content)
    /\ i = 1
    /\ pc = "scan"
    /\ sections = <<>>
    /\ currentSection = NewSection(SessionStart)
    /\ currentMessage = None
    /\ inCodeBlock = FALSE
    /\ codeBlockContent = <<>>
    /\ codeBlockLang = <<>>
    /\ userInput = <<>>
    /\ statistics = None
    /\ firstResult = None
    /\ metadata = None
    /\ variant = 1
    /\ trace = [k \in 1..Len(content) |-> "none"]

\* The index that stays on the absorbed line: a mutant of Advance.
AdvanceStay(k) == k

\* i++ of the lookahead loop
Advance(k) == k + 1

\* The loop body is about to run on lines[i].
Scanning == pc = "scan" /\ i <= Len(lines)

(***************************************************************************)
(* Rule a, lines 86-118, in three steps: the flush and the start of        *)
(* userInput, one step per absorbed line, and the new message with the     *)
(* section split.                                                          *)
(***************************************************************************)
UserPromptStart ==
    /\ Scanning
    /\ Classify(lines[i]) = "a"
    /\ currentSection' = Flush(currentSection, currentMessage)
    /\ userInput' = Substring(lines[i], 2)
    /\ pc' = "lookahead"
    /\ trace' = [trace EXCEPT ![i] = "a"]
    /\ UNCHANGED <<content, lines, variant, firstResult, metadata, i, sections, currentMessage, inCodeBlock,
                   codeBlockContent, codeBlockLang, statistics>>

Lookahead ==
    /\ pc = "lookahead"
    /\ LookaheadContinues(lines, i)
    /\ i' = Advance(i)
    /\ userInput' = IF Trim(lines[i + 1]) # <<>>
                    THEN userInput \o Newline \o lines[i + 1]
                    ELSE userInput
    /\ trace' = [trace EXCEPT ![i + 1] = "absorbed"]
    /\ UNCHANGED <<content, lines, variant, firstResult, metadata, pc, sections, currentSection, currentMessage,
                   inCodeBlock, codeBlockContent, codeBlockLang, statistics>>

UserPromptEnd ==
    /\ pc = "lookahead"
    /\ ~LookaheadContinues(lines, i)
    /\ currentMessage' = Some(UserMessage(Trim(userInput), PromptLineOf(trace, i)))
    /\ IF ShouldSplit(userInput, currentSection)
       THEN /\ sections' = Append(sections, currentSection)
            /\ currentSection' = NewSection(ExtractTitle(userInput))
       ELSE UNCHANGED <<sections, currentSection>>
    /\ userInput' = <<>>
    /\ i' = i + 1
    /\ pc' = "scan"
    /\ UNCHANGED <<content, lines, variant, firstResult, metadata, inCodeBlock, codeBlockContent, codeBlockLang,
                   statistics, trace>>

\* Rule b, lines 120-160.
ToolUse ==
    /\ Scanning
    /\ Classify(lines[i]) = "b"
    /\ LET m == ToolMatch(lines[i])
       IN  IF m # None
           THEN /\ currentSection' =
                       Flush(RecordFileChange(currentSection, m[1].toolName,
                                              m[1].toolArg, lines[i], i),
                             currentMessage)
                /\ currentMessage' =
                       Some(ToolMessage(m[1].toolName, m[1].toolArg, lines[i], i))
           ELSE UNCHANGED <<currentSection, currentMessage>>
    /\ i' = i + 1
    /\ trace' = [trace EXCEPT ![i] = "b"]
    /\ UNCHANGED <<content, lines, variant, firstResult, metadata, pc, sections, inCodeBlock, codeBlockContent,
                   codeBlockLang, userInput, statistics>>

\* Rule c, lines 162-172.
AssistantResponse ==
    /\ Scanning
    /\ Classify(lines[i]) = "c"
    /\ currentSection' = Flush(currentSection, currentMessage)
    /\ currentMessage' = Some(AssistantMessage(lines[i], i))
    /\ i' = i + 1
    /\ trace' = [trace EXCEPT ![i] = "c"]
    /\ UNCHANGED <<content, lines, variant, firstResult, metadata, pc, sections, inCodeBlock, codeBlockContent,
                   codeBlockLang, userInput, statistics>>

\* Rule d, lines 174-184.
ThinkingBlock ==
    /\ Scanning
    /\ Classify(lines[i]) = "d"
    /\ currentSection' = Flush(currentSection, currentMessage)
    /\ currentMessage' = Some(ThinkingMessage(lines[i], i))
    /\ i' = i + 1
    /\ trace' = [trace EXCEPT ![i] = "d"]
    /\ UNCHANGED <<content, lines, variant, firstResult, metadata, pc, sections, inCodeBlock, codeBlockContent,
                   codeBlockLang, userInput, statistics>>

\* Rule e appending to whatever message is open: a mutant of ToolResult.
ToolResultAnyMessage ==
    /\ Scanning
    /\ Classify(lines[i]) = "e"
    /\ currentMessage' =
           IF currentMessage # None
           THEN Some([currentMessage[1] EXCEPT !.content = @ \o Newline \o lines[i]])
           ELSE currentMessage
    /\ i' = i + 1
    /\ trace' = [trace EXCEPT ![i] = "e"]
    /\ UNCHANGED <<content, lines, variant, firstResult, metadata, pc, sections, currentSection, inCodeBlock,
                   codeBlockContent, codeBlockLang, userInput, statistics>>

\* Rule e, lines 186-192.
ToolResult ==
    /\ Scanning
    /\ Classify(lines[i]) = "e"
    /\ currentMessage' =
           IF currentMessage # None /\ currentMessage[1].type \in {"tool", "git"}
           THEN Some([currentMessage[1] EXCEPT !.content = @ \o Newline \o lines[i]])
           ELSE currentMessage
    /\ i' = i + 1
    /\ trace' = [trace EXCEPT ![i] = "e"]
    /\ UNCHANGED <<content, lines, variant, firstResult, metadata, pc, sections, currentSection, inCodeBlock,
                   codeBlockContent, codeBlockLang, userInput, statistics>>

\* Rule f with a closing fence that also drops the open message: a mutant
\* of CodeFence.
CodeFenceClosingMessage ==
    /\ Scanning
    /\ Classify(lines[i]) = "f"
    /\ IF inCodeBlock
       THEN /\ currentSection' =
                   [currentSection EXCEPT !.codeBlocks =
                        Append(@, [language |-> codeBlockLang,
                                   code     |-> BlockCode(codeBlockContent),
                                   at       |-> i])]
            /\ inCodeBlock' = FALSE
            /\ codeBlockContent' = <<>>
            /\ currentMessage' = None
            /\ UNCHANGED codeBlockLang
       ELSE /\ inCodeBlock' = TRUE
            /\ codeBlockLang' = FenceLanguage(lines[i])
            /\ UNCHANGED <<currentSection, codeBlockContent, currentMessage>>
    /\ i' = i + 1
    /\ trace' = [trace EXCEPT ![i] = IF inCodeBlock THEN "fclose" ELSE "fopen"]
    /\ UNCHANGED <<content, lines, variant, firstResult, metadata, pc, sections, userInput, statistics>>

\* Rule f with a closing fence that gives the block to the section closed
\* last, if there is one: a mutant of CodeFence.
CodeFenceIntoClosedSection ==
    /\ Scanning
    /\ Classify(lines[i]) = "f"
    /\ IF inCodeBlock
       THEN /\ IF sections # <<>>
               THEN /\ sections' =
                           [sections EXCEPT ![Len(sections)].codeBlocks =
                                Append(@, [language |-> codeBlockLang,
                                           code     |-> BlockCode(codeBlockContent),
                                           at       |-> i])]
                    /\ UNCHANGED currentSection
               ELSE /\ currentSection' =
                           [currentSection EXCEPT !.codeBlocks =
                                Append(@, [language |-> codeBlockLang,
                                           code     |-> BlockCode(codeBlockContent),
                                           at       |-> i])]
                    /\ UNCHANGED sections
            /\ inCodeBlock' = FALSE
            /\ codeBlockContent' = <<>>
            /\ UNCHANGED codeBlockLang
       ELSE /\ inCodeBlock' = TRUE
            /\ codeBlockLang' = FenceLanguage(lines[i])
            /\ UNCHANGED <<sections, currentSection, codeBlockContent>>
    /\ i' = i + 1
    /\ trace' = [trace EXCEPT ![i] = IF inCodeBlock THEN "fclose" ELSE "fopen"]
    /\ UNCHANGED <<content, lines, variant, firstResult, metadata, pc, currentMessage, userInput,
                   statistics>>

\* Rule f with a closing fence that leaves the buffer as it is: a mutant of
\* CodeFence.
CodeFenceKeepingBuffer ==
    /\ Scanning
    /\ Classify(lines[i]) = "f"
    /\ IF inCodeBlock
       THEN /\ currentSection' =
                   [currentSection EXCEPT !.codeBlocks =
                        Append(@, [language |-> codeBlockLang,
                                   code     |-> BlockCode(codeBlockContent),
                                   at       |-> i])]
            /\ inCodeBlock' = FALSE
            /\ UNCHANGED <<codeBlockContent, codeBlockLang>>
       ELSE /\ inCodeBlock' = TRUE
            /\ codeBlockLang' = FenceLanguage(lines[i])
            /\ UNCHANGED <<currentSection, codeBlockContent>>
    /\ i' = i + 1
    /\ trace' = [trace EXCEPT ![i] = IF inCodeBlock THEN "fclose" ELSE "fopen"]
    /\ UNCHANGED <<content, lines, variant, firstResult, metadata, pc, sections, currentMessage,
                   userInput, statistics>>

\* Rule f, lines 194-210.
CodeFence ==
    /\ Scanning
    /\ Classify(lines[i]) = "f"
    /\ IF inCodeBlock
       THEN /\ currentSection' =
                   [currentSection EXCEPT !.codeBlocks =
                        Append(@, [language |-> codeBlockLang,
                                   code     |-> BlockCode(codeBlockContent),
                                   at       |-> i])]
            /\ inCodeBlock' = FALSE
            /\ codeBlockContent' = <<>>
            /\ UNCHANGED codeBlockLang
       ELSE /\ inCodeBlock' = TRUE
            /\ codeBlockLang' = FenceLanguage(lines[i])
            /\ UNCHANGED <<currentSection, codeBlockContent>>
    /\ i' = i + 1
    /\ trace' = [trace EXCEPT ![i] = IF inCodeBlock THEN "fclose" ELSE "fopen"]
    /\ UNCHANGED <<content, lines, variant, firstResult, metadata, pc, sections, currentMessage, userInput,
                   statistics>>

\* Rule g, lines 212-215.
CodeBody ==
    /\ Scanning
    /\ Classify(lines[i]) = "rest"
    /\ inCodeBlock
    /\ codeBlockContent' = codeBlockContent \o lines[i] \o Newline
    /\ i' = i + 1
    /\ trace' = [trace EXCEPT ![i] = "g"]
    /\ UNCHANGED <<content, lines, variant, firstResult, metadata, pc, sections, currentSection, currentMessage,
                   inCodeBlock, codeBlockLang, userInput, statistics>>

\* The continuation test accepting a single leading space: a mutant of
\* Continues.
ContinuesOneSpace(line, cm) ==
    /\ cm # None
    /\ Trim(line) # <<>>
    /\ StartsWith(line, <<32>>)

\* if (currentMessage && line.trim()) if (line.startsWith('  ') || line.startsWith('   '))
Continues(line, cm) ==
    /\ cm # None
    /\ Trim(line) # <<>>
    /\ (StartsWith(line, TwoSpaces) \/ StartsWith(line, ThreeSpaces))

\* Rule h and the discard case, lines 217-222.
Continuation ==
    /\ Scanning
    /\ Classify(lines[i]) = "rest"
    /\ ~inCodeBlock
    /\ currentMessage' =
           IF Continues(lines[i], currentMessage)
           THEN Some([currentMessage[1] EXCEPT !.content = @ \o Newline \o lines[i]])
           ELSE currentMessage
    /\ i' = i + 1
    /\ trace' = [trace EXCEPT ![i] =
                     IF Continues(lines[i], currentMessage) THEN "h" ELSE "skip"]
    /\ UNCHANGED <<content, lines, variant, firstResult, metadata, pc, sections, currentSection, inCodeBlock,
                   codeBlockContent, codeBlockLang, userInput, statistics>>

\* The return that closes a fence left open, pushing the buffer as a code
\* block: a mutant of Return.
ReturnClosingFence ==
    /\ pc = "scan"
    /\ i > Len(lines)
    /\ currentSection' =
           Flush(IF inCodeBlock
                 THEN [currentSection EXCEPT !.codeBlocks =
                           Append(@, [language |-> codeBlockLang,
                                      code     |-> BlockCode(codeBlockContent),
                                      at       |-> i])]
                 ELSE currentSection,
                 currentMessage)
    /\ sections' = PushSection(sections, currentSection')
    /\ metadata' = Some(ExtractMetadata(content, lines))
    /\ statistics' = Some(CalculateStatistics(sections'))
    /\ pc' = "done"
    /\ UNCHANGED <<content, lines, variant, firstResult, i, currentMessage, inCodeBlock, codeBlockContent,
                   codeBlockLang, userInput, trace>>

\* After the loop, lines 225-243: the last flush, the last push, the statistics.
Return ==
    /\ pc = "scan"
    /\ i > Len(lines)
    /\ currentSection' = Flush(currentSection, currentMessage)
    /\ sections' = PushSection(sections, currentSection')
    /\ metadata' = Some(ExtractMetadata(content, lines))
    /\ statistics' = Some(CalculateStatistics(sections'))
    /\ pc' = "done"
    /\ UNCHANGED <<content, lines, variant, firstResult, i, currentMessage, inCodeBlock, codeBlockContent,
                   codeBlockLang, userInput, trace>>

Next ==
    \/ UserPromptStart
    \/ Lookahead
    \/ UserPromptEnd
    \/ ToolUse
    \/ AssistantResponse
    \/ ThinkingBlock
    \/ ToolResult
    \/ CodeFence
    \/ CodeBody
    \/ Continuation
    \/ Return

Spec == Init /\ [][Next]_vars

(***************************************************************************)
(* Transcripts of single shapes.  InitShapes draws the raw text from the   *)
(* sequences of at most MaxShapeLines lines in which at most one line is   *)
(* of ShapePool and the others are of BasePool: one line for each tool     *)
(* name, for each way a tool pattern can sit in a line, for each kind of   *)
(* indentation and for each form of path, next to lines that open and      *)
(* continue messages.                                                      *)
(***************************************************************************)
\* Longest transcript, in lines, that InitShapes draws.
MaxShapeLines == 2

\* '/a/ x': unindented narration that names a path
PathLine == <<47, 97, 47, 32, 120>>

BasePool == {QuestionPromptLine, ReadLine, AssistantLine, ThinkingLine, ResultLine,
             FenceLine, IndentedLine, PathLine}

\* '● ' + name + '(' + arg + ')'
ToolLine(name, arg) == BulletSpace \o name \o OpenParen \o arg \o <<41>>

\* '● Task()'
EmptyArgLine == ToolLine(<<84, 97, 115, 107>>, <<>>)
\* '● Read(a': no closing parenthesis
OpenArgLine == <<9679, 32, 82, 101, 97, 100, 40, 97>>
\* 'x ● Edit(b)': the pattern behind other text
TrailingToolLine == <<120, 32>> \o EditLine
\* '  ● Grep(b)': the pattern behind indentation
IndentedToolLine == <<32, 32, 9679, 32, 71, 114, 101, 112, 40, 98, 41>>
\* '● Foo(b)': a name that is not a tool name
UnknownToolLine == <<9679, 32, 70, 111, 111, 40, 98, 41>>
\* '● Foo(b) ● Read(c)': a tool pattern behind a name that is not a tool name
UnknownThenToolLine == UnknownToolLine \o <<32, 9679, 32, 82, 101, 97, 100, 40, 99, 41>>
\* '> ● Read(a)': a prompt that holds a tool pattern
PromptToolLine == <<62, 32, 9679, 32, 82, 101, 97, 100, 40, 97, 41>>
\* '● Bash(git)x': text behind the closing parenthesis
GitTailLine == <<9679, 32, 66, 97, 115, 104, 40, 103, 105, 116, 41, 120>>
\* a tab and 'x'
TabLine == <<9, 120>>
\* 'x'
NarrationLine == <<120>>
\* ' x': one space
OneSpaceLine == <<32, 120>>
\* '   x': three spaces
ThreeSpaceLine == <<32, 32, 32, 120>>
\* '  ': two spaces and nothing else
SpacesLine == <<32, 32>>
\* '  /b/': an indented path
IndentedPathLine == <<32, 32, 47, 98, 47>>
\* 'C:\p q'
DrivePathLine == <<67, 58, 92, 112, 32, 113>>
\* '/ /': two slashes and no token
SlashesLine == <<47, 32, 47>>
\* 'a/b': one slash
OneSlashLine == <<97, 47, 98>>
\* 'Opus'
OpusLine == <<79, 112, 117, 115>>
\* 'Sonnet Opus'
SonnetOpusLine == <<83, 111, 110, 110, 101, 116, 32, 79, 112, 117, 115>>
\* '2025-01-02'
DateLine == <<50, 48, 50, 53, 45, 48, 49, 45, 48, 50>>
\* '●⎿ r': the result glyph right behind the bullet
BulletResultLine == <<9679, 9151, 32, 114>>

ShapePool ==
    {ToolLine(name, <<98>>) : name \in ToolNames}
    \cup {EmptyArgLine, OpenArgLine, TrailingToolLine, IndentedToolLine,
          UnknownToolLine, UnknownThenToolLine, PromptToolLine, GitTailLine,
          TabLine, NarrationLine, OneSpaceLine, ThreeSpaceLine, SpacesLine,
          IndentedPathLine, DrivePathLine, SlashesLine, OneSlashLine,
          OpusLine, SonnetOpusLine, DateLine, BulletResultLine}

ShapeInputs ==
    UNION {{t \in [1..n -> BasePool \cup ShapePool] :
               Cardinality({k \in 1..n : t[k] \notin BasePool}) <= 1} :
           n \in 1..MaxShapeLines}

InitShapes ==
    /\ content \in ShapeInputs
    /\ lines = Normalize(content)
    /\ i = 1
    /\ pc = "scan"
    /\ sections = <<>>
    /\ currentSection = NewSection(SessionStart)
    /\ currentMessage = None
    /\ inCodeBlock = FALSE
    /\ codeBlockContent = <<>>
    /\ codeBlockLang = <<>>
    /\ userInput = <<>>
    /\ statistics = None
    /\ firstResult = None
    /\ metadata = None
    /\ variant = 1
    /\ trace = [k \in 1..Len(content) |-> "none"]

SpecShapes == InitShapes /\ [][Next]_vars

(***************************************************************************)
(* Transcripts with emoji: in messages, in code, in lines passed over.     *)
(***************************************************************************)
\* Longest transcript, in lines, that InitEmoji draws from EmojiPool.
MaxEmojiLines == 4

\* '● ☀☀😀' followed by U+1FA00, which is in none of the blocks
EmojiAssistantLine == <<9679, 32, 9728, 9728, 55357, 56832, 55358, 56832>>
\* '> ☀?'
SunPromptLine == <<62, 32, 9728, 63>>
\* '  ⎿ ☀'
SunResultLine == <<32, 32, 9151, 32, 9728>>
\* '  ⭐' followed by U+FE0F
StarLine == <<32, 32, 11088, 65039>>
\* '☀'
SunLine == <<9728>>

EmojiPool == {EmojiAssistantLine, SunPromptLine, SunResultLine, StarLine, SunLine,
              ReadLine, ThinkingLine, FenceLine}

EmojiInputs == UNION {[1..n -> EmojiPool] : n \in 1..MaxEmojiLines}

InitEmoji ==
    /\ content \in EmojiInputs
    /\ lines = Normalize(content)
    /\ i = 1
    /\ pc = "scan"
    /\ sections = <<>>
    /\ currentSection = NewSection(SessionStart)
    /\ currentMessage = None
    /\ inCodeBlock = FALSE
    /\ codeBlockContent = <<>>
    /\ codeBlockLang = <<>>
    /\ userInput = <<>>
    /\ statistics = None
    /\ firstResult = None
    /\ metadata = None
    /\ variant = 1
    /\ trace = [k \in 1..Len(content) |-> "none"]

SpecEmoji == InitEmoji /\ [][Next]_vars

(***************************************************************************)
(* A second parse() on the same instance.  The call declares its locals    *)
(* anew (lines 69-80) and reads this.lines; what the first call returned   *)
(* is kept in firstResult.                                                 *)
(***************************************************************************)
\* The second call with the section list of the first one still in place, as
\* if it were a field of the instance: a mutant of ParseAgain.
ParseAgainStale ==
    /\ pc = "done"
    /\ firstResult = None
    /\ firstResult' = Some([sections |-> sections, statistics |-> statistics[1]])
    /\ i' = 1
    /\ pc' = "scan"
    /\ currentSection' = NewSection(SessionStart)
    /\ currentMessage' = None
    /\ inCodeBlock' = FALSE
    /\ codeBlockContent' = <<>>
    /\ codeBlockLang' = <<>>
    /\ userInput' = <<>>
    /\ statistics' = None
    /\ metadata' = None
    /\ trace' = [k \in 1..Len(lines) |-> "none"]
    /\ UNCHANGED <<content, lines, variant, sections>>

ParseAgain ==
    /\ pc = "done"
    /\ firstResult = None
    /\ firstResult' = Some([sections |-> sections, statistics |-> statistics[1]])
    /\ i' = 1
    /\ pc' = "scan"
    /\ sections' = <<>>
    /\ currentSection' = NewSection(SessionStart)
    /\ currentMessage' = None
    /\ inCodeBlock' = FALSE
    /\ codeBlockContent' = <<>>
    /\ codeBlockLang' = <<>>
    /\ userInput' = <<>>
    /\ statistics' = None
    /\ metadata' = None
    /\ trace' = [k \in 1..Len(lines) |-> "none"]
    /\ UNCHANGED <<content, lines, variant>>

NextTwice ==
    \/ Next
    \/ ParseAgain

SpecTwice == Init /\ [][NextTwice]_vars

(***************************************************************************)
(* The two parsers on one transcript.  src/unnamed/part_000 is the parser  *)
(* of src/src/transformer.ts with another thinking rule (line 175) and     *)
(* another emoji pattern (line 299); lines 1-340 of the two files are the  *)
(* same otherwise.  The transcript is parsed by the first, whose result is *)
(* kept in firstResult, and then by the second.                            *)
(***************************************************************************)
\* Longest transcript, in lines, that InitVariants draws from VariantPool.
MaxVariantLines == 3

\* 'THINKING: x'
UpperThinkingLine == <<84, 72, 73, 78, 75, 73, 78, 71, 58, 32, 120>>
\* '  thinking'
IndentedThinkingLine == <<32, 32>> \o ThinkingWord
\* '  think x'
ThinkLine == <<32, 32, 116, 104, 105, 110, 107, 32, 120>>

VariantPool == {QuestionPromptLine, ReadLine, AssistantLine, ThinkingLine,
                UpperThinkingLine, IndentedThinkingLine, ThinkLine, ResultLine,
                FenceLine, IndentedLine}

VariantInputs == UNION {[1..n -> VariantPool] : n \in 1..MaxVariantLines}

InitVariants ==
    /\ content \in VariantInputs
    /\ lines = Normalize(content)
    /\ i = 1
    /\ pc = "scan"
    /\ sections = <<>>
    /\ currentSection = NewSection(SessionStart)
    /\ currentMessage = None
    /\ inCodeBlock = FALSE
    /\ codeBlockContent = <<>>
    /\ codeBlockLang = <<>>
    /\ userInput = <<>>
    /\ statistics = None
    /\ firstResult = None
    /\ metadata = None
    /\ variant = 1
    /\ trace = [k \in 1..Len(content) |-> "none"]

\* new ConversationParser(content).parse() of the other file on the same text.
ParseOther ==
    /\ pc = "done"
    /\ variant = 1
    /\ firstResult' = Some([sections |-> sections, statistics |-> statistics[1]])
    /\ variant' = 2
    /\ lines' = Normalize(content)
    /\ i' = 1
    /\ pc' = "scan"
    /\ sections' = <<>>
    /\ currentSection' = NewSection(SessionStart)
    /\ currentMessage' = None
    /\ inCodeBlock' = FALSE
    /\ codeBlockContent' = <<>>
    /\ codeBlockLang' = <<>>
    /\ userInput' = <<>>
    /\ statistics' = None
    /\ metadata' = None
    /\ trace' = [k \in 1..Len(content) |-> "none"]
    /\ UNCHANGED content

NextVariants ==
    \/ Next
    \/ ParseOther

SpecVariants == InitVariants /\ [][NextVariants]_vars

(***************************************************************************)
(* The line normalizer on its own.  The raw text is one line over          *)
(* NormAlphabet (a space, a digit, the arrow, a letter, a carriage return) *)
(* of at most MaxNormLen code units, alone or behind a first line; the one *)
(* step builds a parser from the lines of this one,                        *)
(* new ConversationParser(this.lines.join('\n')).                          *)
(***************************************************************************)
\* Longest line, in code units, that InitNormalizer draws.
MaxNormLen == 4

NormAlphabet == {32, 49, 8594, 120, 13}

NormStrings == UNION {[1..n -> NormAlphabet] : n \in 0..MaxNormLen}

\* 'x' and '1→x'
NormHeads == {<<120>>, <<49, 8594, 120>>}

NormInputs ==
    {<<l>> : l \in NormStrings}
    \cup {<<h, l>> : h \in NormHeads, l \in NormStrings}

InitNormalizer ==
    /\ content \in NormInputs
    /\ lines = Normalize(content)
    /\ i = 1
    /\ pc = "scan"
    /\ sections = <<>>
    /\ currentSection = NewSection(SessionStart)
    /\ currentMessage = None
    /\ inCodeBlock = FALSE
    /\ codeBlockContent = <<>>
    /\ codeBlockLang = <<>>
    /\ userInput = <<>>
    /\ statistics = None
    /\ firstResult = None
    /\ metadata = None
    /\ variant = 1
    /\ trace = [k \in 1..Len(content) |-> "none"]

\* The constructor on the text of the lines: no line holds a '\n', so the
\* split of the join is the line sequence itself.
Renormalize ==
    /\ pc = "scan"
    /\ i = 1
    /\ content' = lines
    /\ lines' = Normalize(lines)
    /\ UNCHANGED <<i, pc, sections, currentSection, currentMessage, inCodeBlock,
                   codeBlockContent, codeBlockLang, userInput, statistics,
                   firstResult, metadata, variant, trace>>

SpecNormalizer == InitNormalizer /\ [][Renormalize]_vars

(***************************************************************************)
(* Properties.                                                             *)
(***************************************************************************)
\* The lines on which the main scan opened a message (rules a-d).
OpenedLines == {k \in 1..Len(lines) : trace[k] \in {"a", "b", "c", "d"}}

\* The messages attached to the sections of the section list.
OutputMessages == AllMessages(sections)

\* C1: when parse() returns, the messages attached to the sections of the
\* output are, one for one, the lines that the main scan classified under
\* rules a-d: as many messages as such lines, each line's message there once.
C1_OpenedMessagesFlushedOnce ==
    pc = "done" =>
        /\ Len(OutputMessages) = Cardinality(OpenedLines)
        /\ \A k \in OpenedLines :
               Cardinality({m \in 1..Len(OutputMessages) : OutputMessages[m].at = k}) = 1

\* C1 witness: a returned document of two sections holding three messages.
C1_Witness ==
    /\ pc = "done"
    /\ Len(sections) = 2
    /\ Cardinality(OpenedLines) = 3

\* C2: every section of the section list holds at least one message, at every
\* point of the scan and in the returned document.
C2_NoEmptySection ==
    \A s \in 1..Len(sections) : Len(sections[s].messages) > 0

\* C2 witness: mid-scan, a section has been pushed whose first message is a
\* topic prompt, which arrived while the initial section was still empty.
C2_Witness ==
    /\ pc = "scan"
    /\ Len(sections) = 1
    /\ \E k \in 1..Len(lines) :
           /\ trace[k] = "a"
           /\ sections[1].messages[1].at = k
           /\ StartsNewTopic(sections[1].messages[1].content)

\* The code blocks the scan has appended so far, those of a section that the
\* section list does not hold included.
RECURSIVE BlocksOf(_)
BlocksOf(secs) ==
    IF secs = <<>> THEN <<>> ELSE secs[1].codeBlocks \o BlocksOf(Tail(secs))

AppendedBlocks ==
    BlocksOf(sections)
    \o (IF pc = "done" /\ Len(currentSection.messages) > 0
        THEN <<>>
        ELSE currentSection.codeBlocks)

\* B joined by newlines
RECURSIVE JoinNewline(_)
JoinNewline(ls) ==
    IF ls = <<>> THEN <<>>
    ELSE IF Len(ls) = 1 THEN ls[1]
    ELSE ls[1] \o <<10>> \o JoinNewline(Tail(ls))

\* The language tag of a fence line: the text after ``` of its trimmed form,
\* 'text' when there is none.
TagOf(line) ==
    LET t == Trim(line)
    IN  IF Len(t) > 3 THEN SubSeq(t, 4, Len(t)) ELSE <<116, 101, 120, 116>>

\* Exactly one appended block belongs to the pair whose closing fence is line
\* q, and it has the tag of line p and the trimmed body between p and q.
OneBlockFor(p, q) ==
    LET mine == {b \in 1..Len(AppendedBlocks) : AppendedBlocks[b].at = q}
    IN  /\ Cardinality(mine) = 1
        /\ \A b \in mine :
               /\ AppendedBlocks[b].language = TagOf(lines[p])
               /\ AppendedBlocks[b].code =
                      Trim(JoinNewline(SubSeq(lines, p + 1, q - 1)))

\* Lines p < q are a balanced pair of fence lines of the text: both have the
\* fence shape, no line between them has, and an even number before p have.
BalancedPair(p, q) ==
    /\ p < q
    /\ IsFence(lines[p])
    /\ IsFence(lines[q])
    /\ \A k \in (p + 1)..(q - 1) : ~IsFence(lines[k])
    /\ Cardinality({k \in 1..(p - 1) : IsFence(lines[k])}) % 2 = 0

\* C3 as stated: every balanced pair of fence lines of the input yields
\* exactly one CodeBlock with its tag and its trimmed body, whatever the body
\* lines contain and whatever precedes the opening fence.
C3_AsStated ==
    pc = "done" =>
        \A p \in 1..Len(lines) : \A q \in 1..Len(lines) :
            BalancedPair(p, q) => OneBlockFor(p, q)

\* The scan took line p as an opening fence, line q as the closing fence, and
\* every line between them as code body.
ScannedPair(p, q) ==
    /\ p < q
    /\ trace[p] = "fopen"
    /\ trace[q] = "fclose"
    /\ \A k \in (p + 1)..(q - 1) : trace[k] = "g"

\* C3 amended: a pair of fence lines that the main scan itself processes as
\* opening and closing fence, with every line between them reaching the
\* code-body rule (none absorbed by a prompt's lookahead, none matching rules
\* a-e), yields exactly one CodeBlock, with the opening fence's tag ('text'
\* when it has none) and code equal to the trimmed body joined by newlines.
C3_ScannedPairRoundTrip ==
    pc = "done" =>
        \A p \in 1..Len(lines) : \A q \in 1..Len(lines) :
            ScannedPair(p, q) => OneBlockFor(p, q)

\* C3 witness: a scanned pair with a body, in a section of the output.
C3_Witness ==
    /\ pc = "done"
    /\ \E p \in 1..Len(lines) : \E q \in 1..Len(lines) :
           /\ ScannedPair(p, q)
           /\ q > p + 1
           /\ \E s \in 1..Len(sections) : \E b \in 1..Len(sections[s].codeBlocks) :
                  sections[s].codeBlocks[b].at = q

\* The `at` of the elements of a sequence increase strictly.
InInputOrder(xs) == \A a \in 1..Len(xs) : \A b \in 1..Len(xs) : a < b => xs[a].at < xs[b].at

\* C4: in the returned document the sections are in the order of their first
\* messages, the messages are in input order within and across sections, and
\* each section's code blocks and file changes are in input order.
C4_OrderPreserved ==
    pc = "done" =>
        /\ InInputOrder(OutputMessages)
        /\ \A s \in 1..Len(sections) : \A t \in 1..Len(sections) :
               s < t => sections[s].messages[1].at < sections[t].messages[1].at
        /\ \A s \in 1..Len(sections) :
               /\ InInputOrder(sections[s].messages)
               /\ InInputOrder(sections[s].codeBlocks)
               /\ InInputOrder(sections[s].fileChanges)

\* C4 witness: an output of two sections, the first with a code block, two
\* messages and two file changes.
C4_Witness ==
    /\ pc = "done"
    /\ Len(sections) = 2
    /\ Len(sections[1].messages) >= 2
    /\ Len(sections[1].fileChanges) >= 2
    /\ Len(sections[1].codeBlocks) >= 1

\* The lines the main scan classified as user prompts.
PromptLines == {k \in 1..Len(lines) : trace[k] = "a"}

\* The message of the output that line k opened.
MessageOf(k) ==
    OutputMessages[CHOOSE m \in 1..Len(OutputMessages) : OutputMessages[m].at = k]

\* The section of the output that holds the message line k opened.
SectionOf(k) ==
    CHOOSE s \in 1..Len(sections) :
        \E m \in 1..Len(sections[s].messages) : sections[s].messages[m].at = k

\* The prompt of line p closed the section being built and opened a new one:
\* its message is the first of a section other than the first.
SplitAt(p) == \E s \in 2..Len(sections) : sections[s].messages[1].at = p

\* The last line before p that opened a message.
PreviousOpened(p) ==
    CHOOSE k \in OpenedLines : k < p /\ \A j \in OpenedLines : j < p => j <= k

\* The text is longer than 50 characters or contains a question mark.
LongOrQuestion(text) == Len(text) > 50 \/ \E k \in 1..Len(text) : text[k] = 63

\* C5 as stated: the prompt of line p closes the current section and opens a
\* new one if and only if its trimmed accumulated text is longer than 50
\* characters or contains a question mark, and a message was opened before it;
\* the new user message is then the first of the new section and the message
\* that was open stays, last, in the old one.
C5_AsStated ==
    pc = "done" =>
        \A p \in PromptLines :
            /\ SplitAt(p) <=>
                   /\ LongOrQuestion(MessageOf(p).content)
                   /\ \E k \in OpenedLines : k < p
            /\ SplitAt(p) =>
                   LET old == sections[SectionOf(p) - 1].messages
                   IN  old[Len(old)].at = PreviousOpened(p)

\* The transcript of the scenario of C6: a prompt with a question mark and
\* more than 50 characters, then '● Read(X)' with X non-empty and free of ')',
\* then at most the empty line that a final newline leaves.
ReadScenario ==
    /\ Len(lines) \in {2, 3}
    /\ Len(lines) = 3 => lines[3] = <<>>
    /\ StartsWith(lines[1], <<62, 32>>)
    /\ Len(lines[1]) > 52
    /\ \E k \in 1..Len(lines[1]) : lines[1][k] = 63
    /\ StartsWith(lines[2], <<9679, 32, 82, 101, 97, 100, 40>>)
    /\ Len(lines[2]) >= 9
    /\ lines[2][Len(lines[2])] = 41
    /\ \A k \in 8..(Len(lines[2]) - 1) : lines[2][k] # 41

\* X of '● Read(X)'
ReadArgument == SubSeq(lines[2], 8, Len(lines[2]) - 1)

\* The words of a text: its maximal runs of non-whitespace.
RECURSIVE Words(_)
Words(text) ==
    LET t == Trim(text)
        ws == {k \in 1..Len(t) : IsSpace(t[k])}
    IN  IF t = <<>> THEN <<>>
        ELSE IF ws = {} THEN <<t>>
        ELSE LET a == CHOOSE k \in ws : \A m \in ws : k <= m
             IN  <<SubSeq(t, 1, a - 1)>> \o Words(SubSeq(t, a, Len(t)))

\* The title the specification derives from a prompt text: its first six
\* words joined by single spaces, cut to 47 characters and '...' when longer
\* than 50, 'Conversation' when there is no word.
TitleOfWords(text) ==
    LET ws     == Words(text)
        six    == SubSeq(ws, 1, IF Len(ws) < 6 THEN Len(ws) ELSE 6)
        joined == JoinSpace(six)
    IN  IF joined = <<>> THEN <<67, 111, 110, 118, 101, 114, 115, 97, 116, 105, 111, 110>>
        ELSE IF Len(joined) > 50 THEN SubSeq(joined, 1, 47) \o <<46, 46, 46>>
        ELSE joined

\* What C6 says of the scenario's output, but for the title: one section, a
\* user message then a tool message with fileName X, one FileChange of type
\* read for X, filesModified 1.
ReadScenarioBody ==
    /\ Len(sections) = 1
    /\ Len(sections[1].messages) = 2
    /\ sections[1].messages[1].type = "user"
    /\ sections[1].messages[1].content = Trim(Substring(lines[1], 2))
    /\ sections[1].messages[2].type = "tool"
    /\ sections[1].messages[2].fileName = Some(ReadArgument)
    /\ Len(sections[1].fileChanges) = 1
    /\ sections[1].fileChanges[1].type = "read"
    /\ sections[1].fileChanges[1].fileName = ReadArgument
    /\ statistics[1].filesModified = 1

\* C6 as stated: in the scenario the one section's title is derived from the
\* first six words of the prompt.
C6_AsStated ==
    (pc = "done" /\ ReadScenario) =>
        /\ ReadScenarioBody
        /\ sections[1].title = TitleOfWords(Substring(lines[1], 2))

\* C6 amended: in the scenario (X free of ')') the output has exactly one
\* section, titled 'Session Start', holding a user message then a tool
\* message with fileName X and one FileChange of type read for X, and
\* filesModified is 1.
C6_ReadScenarioSessionStart ==
    (pc = "done" /\ ReadScenario) =>
        /\ ReadScenarioBody
        /\ sections[1].title = <<83, 101, 115, 115, 105, 111, 110, 32, 83, 116, 97, 114, 116>>

\* C6 witness: the scenario has been parsed.
C6_Witness == pc = "done" /\ ReadScenario /\ Len(lines) = 2

\* The last line the lookahead of the prompt of line p absorbed (p if none).
LastAbsorbed(p) ==
    CHOOSE e \in p..Len(lines) :
        /\ \A k \in (p + 1)..e : trace[k] = "absorbed"
        /\ (e = Len(lines) \/ trace[e + 1] # "absorbed")

\* The text a prompt accumulates: the prompt line after its marker, then each
\* absorbed line that is not blank, behind a newline.
RECURSIVE Accumulate(_, _)
Accumulate(text, absorbed) ==
    IF absorbed = <<>> THEN text
    ELSE Accumulate(IF Trim(absorbed[1]) = <<>> THEN text
                    ELSE text \o <<10>> \o absorbed[1],
                    Tail(absorbed))

Accumulated(p) ==
    Accumulate(SubSeq(lines[p], 3, Len(lines[p])), SubSeq(lines, p + 1, LastAbsorbed(p)))

\* A prompt whose accumulated text has at most 50 characters and no question mark.
ShortPrompt(p) == p \in PromptLines /\ ~LongOrQuestion(Accumulated(p))

\* C7: a prompt whose accumulated text has at most 50 characters and no
\* question mark never closes the current section, and the user messages of a
\* run of such prompts are all in one section.
C7_ShortPromptKeepsSection ==
    pc = "done" =>
        /\ \A p \in PromptLines : ShortPrompt(p) => ~SplitAt(p)
        /\ \A p \in PromptLines : \A q \in PromptLines :
               (/\ p < q
                /\ \A r \in PromptLines : (p <= r /\ r <= q) => ShortPrompt(r))
               => SectionOf(p) = SectionOf(q)

\* C7 witness: two short prompts, one after the other, have been parsed after
\* a line that opened a message.
C7_Witness ==
    /\ pc = "done"
    /\ \E p \in PromptLines : \E q \in PromptLines :
           /\ p < q
           /\ ShortPrompt(p)
           /\ ShortPrompt(q)
           /\ \E k \in OpenedLines : k < p

\* C8: when no line opens a message the returned section list is empty, even
\* with closed code fences in the transcript: every counter of the statistics
\* is 0, codeBlocksCount included, and the emoji map is empty.
C8_NoMessageNoSection ==
    (pc = "done" /\ OpenedLines = {}) =>
        /\ sections = <<>>
        /\ statistics[1].totalMessages = 0
        /\ statistics[1].userMessages = 0
        /\ statistics[1].assistantMessages = 0
        /\ statistics[1].thinkingMessages = 0
        /\ statistics[1].toolMessages = 0
        /\ statistics[1].gitMessages = 0
        /\ statistics[1].filesModified = 0
        /\ statistics[1].codeBlocksCount = 0
        /\ DOMAIN statistics[1].emojiCounts = {}

\* C8 witness: parse() returned on a transcript that opened no message and
\* closed a code fence.
C8_Witness ==
    /\ pc = "done"
    /\ OpenedLines = {}
    /\ Len(currentSection.codeBlocks) >= 1

\* The lines the main scan classified as tool invocations.
ToolLines == {k \in 1..Len(lines) : trace[k] = "b"}

\* The text contains 'git' as a standalone word: with no letter, digit or
\* underscore right before or right after it.
StandaloneGit(text) ==
    \E k \in 1..Len(text) :
        /\ k + 2 <= Len(text)
        /\ text[k] = 103 /\ text[k + 1] = 105 /\ text[k + 2] = 116
        /\ (k = 1 \/ ~IsWordChar(text[k - 1]))
        /\ (k + 2 = Len(text) \/ ~IsWordChar(text[k + 3]))

\* The invocation of line k is of the tool Bash with a standalone 'git' in
\* its argument.
BashGit(k) ==
    /\ ToolMatch(lines[k])[1].toolName = <<66, 97, 115, 104>>
    /\ StandaloneGit(ToolMatch(lines[k])[1].toolArg)

\* C9: a tool-invocation line opens a message of kind git if and only if the
\* tool is Bash and its argument contains the standalone word 'git', and of
\* kind tool otherwise; the returned gitMessages counts the git messages,
\* toolMessages the others, and filesModified the distinct arguments of the
\* others only.
C9_GitClassification ==
    pc = "done" =>
        /\ \A k \in ToolLines :
               MessageOf(k).type = IF BashGit(k) THEN "git" ELSE "tool"
        /\ statistics[1].gitMessages = Cardinality({k \in ToolLines : BashGit(k)})
        /\ statistics[1].toolMessages = Cardinality({k \in ToolLines : ~BashGit(k)})
        /\ statistics[1].filesModified =
               Cardinality({ToolMatch(lines[k])[1].toolArg :
                                k \in {j \in ToolLines :
                                           /\ ~BashGit(j)
                                           /\ ToolMatch(lines[j])[1].toolArg # <<>>}})

\* C9 witness: a Bash invocation of git and an invocation of another tool
\* whose argument has the word git have both been parsed.
C9_Witness ==
    /\ pc = "done"
    /\ \E k \in ToolLines : BashGit(k) /\ MessageOf(k).fileName # None
    /\ \E k \in ToolLines :
           /\ ~BashGit(k)
           /\ StandaloneGit(ToolMatch(lines[k])[1].toolArg)

\* C10 as stated: the title of a section opened by a prompt is the first six
\* words of the prompt text joined by single spaces, cut to 47 characters and
\* '...' (50 in all) when the join is longer than 50, 'Conversation' when the
\* join is empty.
C10_AsStated ==
    pc = "done" =>
        \A s \in 2..Len(sections) :
            sections[s].title = TitleOfWords(sections[s].messages[1].content)

\* The positions of the arrow that ends a prefix of the shape 'optional
\* leading whitespace, one or more digits, arrow' (at most one position).
PrefixEnds(line) ==
    {e \in 2..Len(line) :
        /\ line[e] = 8594
        /\ \E a \in 0..(e - 2) :
               /\ \A k \in 1..a : IsSpace(line[k])
               /\ \A k \in (a + 1)..(e - 1) : IsDigit(line[k])}

\* The remainder of a prefixed line after the arrow.
RemainderAfterArrow(line) ==
    LET e == CHOOSE x \in PrefixEnds(line) : TRUE
    IN  SubSeq(line, e + 1, Len(line))

\* A line that carries a second prefix right behind its first one.
StackedPrefix(line) ==
    /\ PrefixEnds(line) # {}
    /\ PrefixEnds(RemainderAfterArrow(line)) # {}

\* C11, as stated: for every raw text, the normalizer applied to its own
\* output returns that output unchanged.
C11_AsStated == Normalize(lines) = lines

\* C11: for every raw text none of whose lines carries a second prefix right
\* behind its first one, the normalizer applied to its own output returns
\* that output unchanged.
C11_SinglePrefixIdempotent ==
    (\A k \in 1..Len(content) : ~StackedPrefix(content[k]))
        => Normalize(lines) = lines

\* C11 witness: a line with one prefix, digits of two code units, has been
\* stripped and the second line of the text passed through.
C11_Witness ==
    /\ Len(content) = 2
    /\ \A k \in 1..Len(content) : ~StackedPrefix(content[k])
    /\ PrefixEnds(content[2]) = {3}
    /\ lines[2] # content[2]
    /\ lines[1] = content[1]

\* C12, as stated: one output line per input line, in order; a line of the
\* shape 'optional leading whitespace, one or more digits, arrow' is replaced
\* by the remainder after the arrow, any other line is passed through.
C12_AsStated ==
    /\ Len(lines) = Len(content)
    /\ \A k \in 1..Len(content) :
           lines[k] = IF PrefixEnds(content[k]) # {}
                      THEN RemainderAfterArrow(content[k])
                      ELSE content[k]

\* The messages flushed so far, in flush order: those of the section list and
\* those of the section under construction.
FlushedMessages ==
    AllMessages(sections)
    \o (IF pc = "done" /\ Len(currentSection.messages) > 0
        THEN <<>>
        ELSE currentSection.messages)

\* currentMessage still refers to the message flushed last.
OpenIsFlushed ==
    /\ currentMessage # None
    /\ FlushedMessages # <<>>
    /\ FlushedMessages[Len(FlushedMessages)].at = currentMessage[1].at

\* C13: no step changes a message that has been flushed (its kind, content,
\* toolName and fileName stay as flushed, and flushed messages keep their
\* places); a step changes the content of the open message only, and while
\* the open reference still points at a flushed message a step leaves that
\* message alone or opens another one.
C13_FlushedMessagesFrozen ==
    [][/\ Len(FlushedMessages') >= Len(FlushedMessages)
       /\ \A k \in 1..Len(FlushedMessages) : FlushedMessages'[k] = FlushedMessages[k]
       /\ OpenIsFlushed =>
              \/ currentMessage' = currentMessage
              \/ currentMessage'[1].at # currentMessage[1].at]_vars

\* C13 witness: behind a flushed message, the open message is a tool message
\* to which a result line has been appended.
C13_Witness ==
    /\ pc = "scan"
    /\ FlushedMessages # <<>>
    /\ currentMessage # None
    /\ currentMessage[1].type = "tool"
    /\ currentMessage[1].at > FlushedMessages[Len(FlushedMessages)].at
    /\ Includes(currentMessage[1].content, ResultGlyph)

\* The lines consumed so far are those before the position, and the line at
\* the position while its lookahead runs.
ConsumedBeforePosition ==
    \A k \in 1..Len(lines) :
        trace[k] # "none" <=> (k < i \/ (k = i /\ pc = "lookahead"))

\* A step never moves the position back, moves it by one when it absorbs a
\* line or ends an iteration of the main loop, never moves it past the end
\* of the lines, and leaves the rule of every consumed line as it is.
PositionAdvances ==
    /\ i' >= i
    /\ (pc' = "scan" \/ (pc = "lookahead" /\ pc' = "lookahead")) => i' = i + 1
    /\ i' <= Len(lines) + 1
    /\ \A k \in 1..Len(lines) : trace[k] # "none" => trace'[k] = trace[k]

\* What is left of the scan: two for each line at or behind the position and
\* for the return, one less once the line at the position is a prompt whose
\* lookahead runs.
Remaining ==
    IF pc = "done" THEN 0
    ELSE 2 * (Len(lines) + 1 - i) + (IF pc = "scan" THEN 2 ELSE 1)

\* The guard of one of the steps holds: the loop body on a line of one of
\* the classes, the lookahead loop or its exit, or the code after the loop.
CanStep ==
    \/ Scanning /\ Classify(lines[i]) \in {"a", "b", "c", "d", "e", "f", "rest"}
    \/ pc = "lookahead"
    \/ pc = "scan" /\ i > Len(lines)

\* C14: parse() returns on every input: until it has returned a step can be
\* taken, and every step takes from what is left of the scan, which is never
\* negative; the position strictly increases at every step of the main loop
\* and of the lookahead and never moves back; every line is consumed once, by
\* one rule, by the lookahead or by the discard case.
C14_Terminates ==
    /\ [](pc # "done" => CanStep)
    /\ [](Remaining >= 0)
    /\ [][Remaining' < Remaining /\ PositionAdvances]_vars
    /\ [](ConsumedBeforePosition)
    /\ [](pc = "done" => \A k \in 1..Len(lines) : trace[k] # "none")

\* C14 witness: parse() has returned after a lookahead absorbed a line and
\* the main loop discarded another.
C14_Witness ==
    /\ pc = "done"
    /\ \E k \in 1..Len(lines) : trace[k] = "absorbed"
    /\ \E k \in 1..Len(lines) : trace[k] = "skip"

\* The lines on which the main scan closed a fence.
ClosedLines == {q \in 1..Len(lines) : trace[q] = "fclose"}

\* The line of the opening fence that no later fence closes.
LastOpen ==
    CHOOSE p \in 1..Len(lines) :
        /\ trace[p] = "fopen"
        /\ \A q \in (p + 1)..Len(lines) : trace[q] \notin {"fopen", "fclose"}

\* No code block stands for the fence left open: the blocks appended are
\* those of the closing fences, all of them before the opening fence.
NoBlockForOpenFence ==
    /\ Len(AppendedBlocks) = Cardinality(ClosedLines)
    /\ \A b \in 1..Len(AppendedBlocks) : AppendedBlocks[b].at < LastOpen

\* The messages opened before the open fence are in the output, each once.
MessagesBeforeOpenFenceKept ==
    \A k \in OpenedLines :
        k < LastOpen =>
            Cardinality({m \in 1..Len(OutputMessages) : OutputMessages[m].at = k}) = 1

\* The code blocks closed before the open fence are in the output, each once.
BlocksBeforeOpenFenceKept ==
    \A q \in ClosedLines :
        Cardinality({b \in 1..Len(BlocksOf(sections)) : BlocksOf(sections)[b].at = q}) = 1

\* C15, as stated: when the input ends while a fence is open, parse() returns,
\* no code block stands for the open fence, and the messages and the code
\* blocks collected before the opening fence are in the output.
C15_AsStated ==
    (pc = "done" /\ inCodeBlock) =>
        /\ NoBlockForOpenFence
        /\ MessagesBeforeOpenFenceKept
        /\ BlocksBeforeOpenFenceKept

\* C15: when the input ends while a fence is open, parse() returns, no code
\* block stands for the open fence, the messages opened before the opening
\* fence are in the output, and so are the code blocks closed before it if
\* the scan opened at least one message; if it opened none the output has no
\* section.
C15_OpenFenceDropped ==
    (pc = "done" /\ inCodeBlock) =>
        /\ NoBlockForOpenFence
        /\ MessagesBeforeOpenFenceKept
        /\ OpenedLines # {} => BlocksBeforeOpenFenceKept
        /\ OpenedLines = {} => sections = <<>>

\* C15 witness: the input ended in an open fence behind a message and a
\* closed code block, which the output holds.
C15_Witness ==
    /\ pc = "done"
    /\ inCodeBlock
    /\ BlocksOf(sections) # <<>>
    /\ \E k \in OpenedLines : k < LastOpen

\* Number of messages of ms of the kind, counted one message at a time.
RECURSIVE KindCount(_, _)
KindCount(ms, kind) ==
    IF ms = <<>> THEN 0
    ELSE (IF Head(ms).type = kind THEN 1 ELSE 0) + KindCount(Tail(ms), kind)

\* C16: in the returned document totalMessages is the number of messages in
\* the output sections, each of the five per-kind counters is the number of
\* output messages of its kind, and the five counters add up to the total.
C16_CountersMatchOutput ==
    pc = "done" =>
        LET st == statistics[1]
        IN  /\ st.totalMessages = Len(OutputMessages)
            /\ st.userMessages = KindCount(OutputMessages, "user")
            /\ st.assistantMessages = KindCount(OutputMessages, "assistant")
            /\ st.thinkingMessages = KindCount(OutputMessages, "thinking")
            /\ st.toolMessages = KindCount(OutputMessages, "tool")
            /\ st.gitMessages = KindCount(OutputMessages, "git")
            /\ st.totalMessages =
                   st.userMessages + st.assistantMessages + st.thinkingMessages
                   + st.toolMessages + st.gitMessages

\* C16 witness: a returned document with a user, a tool and a git message.
C16_Witness ==
    /\ pc = "done"
    /\ statistics[1].totalMessages = 3
    /\ statistics[1].userMessages = 1
    /\ statistics[1].toolMessages = 1
    /\ statistics[1].gitMessages = 1

\* The file names that the output messages of kind tool carry, non-empty.
ToolFileNames ==
    {f \in {OutputMessages[m].fileName : m \in 1..Len(OutputMessages)} :
        /\ f # None
        /\ f[1] # <<>>
        /\ \E m \in 1..Len(OutputMessages) :
               OutputMessages[m].type = "tool" /\ OutputMessages[m].fileName = f}

\* C17: in the returned document filesModified is the number of distinct
\* non-empty file names among the output messages of kind tool: a name that
\* occurs several times counts once, a git message adds nothing.
C17_DistinctToolFiles ==
    pc = "done" => statistics[1].filesModified = Cardinality(ToolFileNames)

\* C17 witness: of three tool messages two name the same file and the third
\* names another: two files.
C17_Witness ==
    /\ pc = "done"
    /\ statistics[1].toolMessages = 3
    /\ statistics[1].filesModified = 2

\* C18: in the returned document codeBlocksCount is the number of code blocks
\* in the output sections, which is the number of fences closed while a
\* section that the output keeps was current: all closing fences if the scan
\* opened a message, none if it did not.
C18_CodeBlocksCounted ==
    pc = "done" =>
        /\ statistics[1].codeBlocksCount = Len(BlocksOf(sections))
        /\ statistics[1].codeBlocksCount =
               IF OpenedLines = {} THEN 0 ELSE Cardinality(ClosedLines)
        /\ \A q \in ClosedLines :
               OpenedLines # {} =>
                   \E s \in 1..Len(sections) :
                       \E b \in 1..Len(sections[s].codeBlocks) :
                           sections[s].codeBlocks[b].at = q

\* C18 witness: a returned document of two sections, with a code block in
\* the second one.
C18_Witness ==
    /\ pc = "done"
    /\ Len(sections) = 2
    /\ sections[2].codeBlocks # <<>>
    /\ statistics[1].codeBlocksCount >= 1

\* C19: what parse() reads is what the constructor made of the text, so a
\* second instance built from the same text starts as this one did; no step
\* of parse() changes the text or the normalized lines; and a second parse()
\* on the instance returns the sections and the statistics that the first
\* one returned.
C19_SameResultInputUntouched ==
    /\ [](lines = Normalize(content))
    /\ [][content' = content /\ lines' = lines]_vars
    /\ []((pc = "done" /\ firstResult # None) =>
              firstResult[1] = [sections |-> sections, statistics |-> statistics[1]])

\* C19 witness: the second parse() has returned a document of two sections
\* with a code block.
C19_Witness ==
    /\ pc = "done"
    /\ firstResult # None
    /\ Len(sections) = 2
    /\ BlocksOf(sections) # <<>>

\* The main scan takes the line at the position under one of rules a-e: it
\* adds nothing to the code buffer and leaves inCodeBlock as it is.
TakenByAtoE ==
    /\ trace'[i] \in {"a", "b", "c", "d", "e"}
    /\ inCodeBlock' = inCodeBlock
    /\ codeBlockContent' = codeBlockContent
    /\ currentSection'.codeBlocks = currentSection.codeBlocks

\* The step of the main scan has the effect of the one rule it records for
\* the line: rules a-e and h and the discard case leave the fence state, the
\* fence rule and the body rule leave the messages, the fence rule toggles
\* inCodeBlock and the body rule appends the line to the buffer.
OneRuleEffect ==
    LET r == trace'[i]
    IN  /\ r \in {"a", "b", "c", "d", "e", "fopen", "fclose", "g", "h", "skip"}
        /\ \A k \in 1..Len(lines) : k # i => trace'[k] = trace[k]
        /\ r \in {"a", "b", "c", "d", "e", "h", "skip"} =>
               /\ inCodeBlock' = inCodeBlock
               /\ codeBlockContent' = codeBlockContent
               /\ currentSection'.codeBlocks = currentSection.codeBlocks
        /\ r \in {"fopen", "fclose", "g", "skip"} =>
               /\ currentMessage' = currentMessage
               /\ currentSection'.messages = currentSection.messages
        /\ r \in {"fopen", "fclose"} => inCodeBlock' = ~inCodeBlock
        /\ r = "g" =>
               /\ inCodeBlock /\ inCodeBlock'
               /\ codeBlockContent' = codeBlockContent \o lines[i] \o Newline

\* C20, as stated: in every state of the main scan, a code block open or not,
\* a line that begins with the prompt marker, begins with the bullet glyph,
\* matches a thinking marker or contains the result glyph is taken by rules
\* a-e, is not appended to the code buffer and leaves inCodeBlock as it is;
\* every line of the main scan has the effect of one rule.
C20_AsStated ==
    [][Scanning =>
          /\ OneRuleEffect
          /\ (\/ StartsWith(lines[i], PromptMarker)
              \/ StartsWith(lines[i], Bullet)
              \/ IsThinking(lines[i])
              \/ Includes(lines[i], ResultGlyph)) => TakenByAtoE]_vars

\* The line begins with the bullet glyph, a space, a tool name and an opening
\* parenthesis.
BeginsWithTool(line) ==
    \E name \in ToolNames : StartsWith(line, BulletSpace \o name \o OpenParen)

\* C21, as stated: the main scan takes a line as a tool invocation only if
\* the line begins with the bullet glyph, a space, a tool name and an opening
\* parenthesis.
C21_AsStated ==
    \A k \in 1..Len(lines) : trace[k] = "b" => BeginsWithTool(lines[k])

\* The tool name with which a tool-invocation line begins.
ToolNameOf(line) ==
    CHOOSE name \in ToolNames : StartsWith(line, BulletSpace \o name \o OpenParen)

\* The parenthesized argument of a tool-invocation line: the text behind the
\* opening parenthesis up to the first closing one, or to the end of the line.
ToolArgOf(line) ==
    LET from  == Len(ToolNameOf(line)) + 4
        close == {m \in from..Len(line) : line[m] = 41}
    IN  IF close = {} THEN SubSeq(line, from, Len(line))
        ELSE SubSeq(line, from, (CHOOSE m \in close : \A n \in close : m <= n) - 1)

\* The invocation is a git action: Bash, with the standalone word 'git'.
GitInvocation(line) == ToolNameOf(line) = BashName /\ StandaloneGit(ToolArgOf(line))

\* The open message after the step holds the argument as fileName (none if
\* the argument is empty), the raw line as content and the git flag.
StoresInvocation ==
    /\ currentMessage' # None
    /\ currentMessage'[1].at = i
    /\ currentMessage'[1].fileName =
           (IF ToolArgOf(lines[i]) = <<>> THEN None ELSE Some(ToolArgOf(lines[i])))
    /\ currentMessage'[1].content = lines[i]
    /\ currentMessage'[1].isGitAction = Some(GitInvocation(lines[i]))
    /\ currentMessage'[1].type = (IF GitInvocation(lines[i]) THEN "git" ELSE "tool")

\* C22, as stated: the message that a tool-invocation line opens holds the
\* tool name of the line as toolName, the argument as fileName (none if it is
\* empty), the raw line as content and the git flag, for a tool message and
\* for a git message alike.
C22_AsStated ==
    [][(Scanning /\ BeginsWithTool(lines[i])) =>
          /\ StoresInvocation
          /\ currentMessage'[1].toolName = Some(ToolNameOf(lines[i]))]_vars

\* C22: the message that a tool-invocation line opens holds the argument as
\* fileName (none if it is empty), the raw line as content and the git flag;
\* its toolName is the tool name of the line for a tool message and 'Git' for
\* a git message.
C22_ToolMessageFields ==
    [][(Scanning /\ BeginsWithTool(lines[i])) =>
          /\ StoresInvocation
          /\ currentMessage'[1].toolName =
                 Some(IF GitInvocation(lines[i]) THEN GitName ELSE ToolNameOf(lines[i]))]_vars

\* C22 witness: the open message is the git message of '● Bash(git)x'.
C22_Witness ==
    /\ currentMessage # None
    /\ currentMessage[1].type = "git"
    /\ currentMessage[1].content = GitTailLine
    /\ currentMessage[1].fileName = Some(GitWord)

RECURSIVE ChangesOf(_)
ChangesOf(secs) ==
    IF secs = <<>> THEN <<>> ELSE secs[1].fileChanges \o ChangesOf(Tail(secs))

\* The file changes recorded so far, those of the section under construction
\* included.
RecordedChanges ==
    ChangesOf(sections)
    \o (IF pc = "done" /\ Len(currentSection.messages) > 0
        THEN <<>>
        ELSE currentSection.fileChanges)

\* 'Write', 'Edit', 'MultiEdit', 'NotebookEdit'
WriteFamily ==
    {<<87, 114, 105, 116, 101>>, <<69, 100, 105, 116>>,
     <<77, 117, 108, 116, 105, 69, 100, 105, 116>>,
     <<78, 111, 116, 101, 98, 111, 111, 107, 69, 100, 105, 116>>}

\* 'Grep', 'Glob', 'Search', 'WebSearch'
SearchFamily ==
    {<<71, 114, 101, 112>>, <<71, 108, 111, 98>>, <<83, 101, 97, 114, 99, 104>>,
     <<87, 101, 98, 83, 101, 97, 114, 99, 104>>}

\* C23: the file change recorded for a tool invocation has type update for
\* Write, Edit, MultiEdit and NotebookEdit, type search for Grep, Glob, Search
\* and WebSearch, and type read for every other tool name.
C23_ChangeTypeByTool ==
    \A c \in 1..Len(RecordedChanges) :
        LET line == lines[RecordedChanges[c].at]
        IN  BeginsWithTool(line) =>
                RecordedChanges[c].type =
                    IF ToolNameOf(line) \in WriteFamily THEN "update"
                    ELSE IF ToolNameOf(line) \in SearchFamily THEN "search"
                    ELSE "read"

\* C23 witness: the returned document holds the search change of a WebSearch
\* invocation and a read change.
C23_Witness ==
    /\ pc = "done"
    /\ \E c \in 1..Len(RecordedChanges) :
           /\ RecordedChanges[c].type = "search"
           /\ BeginsWithTool(lines[RecordedChanges[c].at])
           /\ ToolNameOf(lines[RecordedChanges[c].at]) = <<87, 101, 98, 83, 101, 97, 114, 99, 104>>
    /\ \E c \in 1..Len(RecordedChanges) : RecordedChanges[c].type = "read"

\* The changes of the output that the line k recorded.
ChangesAt(k) ==
    {c \in 1..Len(ChangesOf(sections)) : ChangesOf(sections)[c].at = k}

\* The tool-invocation lines that the main scan processed.
InvocationLines ==
    {k \in 1..Len(lines) : trace[k] = "b" /\ BeginsWithTool(lines[k])}

\* C24, as stated: in the returned document a processed tool-invocation line
\* has one file change if its argument is not empty, with the argument as
\* fileName and the raw line as details, and none if it is empty; the file
\* changes of the output are as many as the processed tool-invocation lines
\* with an argument.
C24_AsStated ==
    pc = "done" =>
        /\ \A k \in InvocationLines :
               IF ToolArgOf(lines[k]) = <<>> THEN ChangesAt(k) = {}
               ELSE /\ Cardinality(ChangesAt(k)) = 1
                    /\ \A c \in ChangesAt(k) :
                           /\ ChangesOf(sections)[c].fileName = ToolArgOf(lines[k])
                           /\ ChangesOf(sections)[c].details = lines[k]
        /\ Len(ChangesOf(sections)) =
               Cardinality({k \in InvocationLines : ToolArgOf(lines[k]) # <<>>})

\* A line with the result glyph that none of rules a-d takes.
ResultOnly(line) ==
    /\ Includes(line, ResultGlyph)
    /\ ~StartsWith(line, PromptMarker)
    /\ ~ToolPatternTest(line)
    /\ ~StartsWith(line, BulletSpace)
    /\ ~IsThinking(line)

OpenerBefore(k) ==
    IF \E o \in OpenedLines : o < k
    THEN CHOOSE o \in OpenedLines : o < k /\ \A o2 \in OpenedLines : o2 < k => o2 <= o
    ELSE 0

\* The opening fence of the block that the fence on line q closes.
OpeningOf(q) ==
    CHOOSE p \in 1..(q - 1) :
        /\ trace[p] = "fopen"
        /\ \A r \in (p + 1)..(q - 1) : trace[r] \notin {"fopen", "fclose"}

\* The block closed on line q holds code-body lines only.
PlainBlock(q) == \A r \in (OpeningOf(q) + 1)..(q - 1) : trace[r] = "g"

\* The message lists of the sections, the one under construction last.
MessageLists ==
    [s \in 1..(Len(sections) + 1) |->
        IF s <= Len(sections) THEN sections[s].messages ELSE currentSection.messages]

\* C26: a step that takes an opening fence, a code-body line or a closing
\* fence leaves the open message and the message list of every section as
\* they are; behind a block of code-body lines the open message is the one
\* that was open before the opening fence (none if none was); and an indented
\* non-blank line behind the closing fence, taken by none of rules a-f, is
\* appended behind a newline to that same message.
C26_FencesKeepOpenMessage ==
    /\ [][(pc = "scan" /\ i' = i + 1 /\ trace'[i] \in {"fopen", "g", "fclose"}) =>
             /\ currentMessage' = currentMessage
             /\ MessageLists' = MessageLists]_vars
    /\ [](\A q \in 1..Len(lines) :
             (pc = "scan" /\ i = q + 1 /\ trace[q] = "fclose" /\ PlainBlock(q)) =>
                 IF OpenerBefore(OpeningOf(q)) = 0
                 THEN currentMessage = None
                 ELSE /\ currentMessage # None
                      /\ currentMessage[1].at = OpenerBefore(OpeningOf(q)))
    /\ [][(/\ Scanning
           /\ i > 1
           /\ trace[i - 1] = "fclose"
           /\ Classify(lines[i]) = "rest"
           /\ StartsWith(lines[i], TwoSpaces)
           /\ Trim(lines[i]) # <<>>
           /\ currentMessage # None) =>
             currentMessage' =
                 Some([currentMessage[1] EXCEPT
                           !.content = currentMessage[1].content \o Newline \o lines[i]])]_vars

\* C26 witness: an indented line behind the closing fence of a block of code
\* has been appended to the message opened before the opening fence.
C26_Witness ==
    /\ pc = "scan"
    /\ i > 4
    /\ trace[i - 1] = "h"
    /\ trace[i - 2] = "fclose"
    /\ PlainBlock(i - 2)
    /\ OpeningOf(i - 2) < i - 3
    /\ currentMessage # None
    /\ currentMessage[1].at = OpenerBefore(OpeningOf(i - 2))

\* The first line behind line p that begins with the prompt marker or with
\* the bullet glyph, the line behind the last one if there is none.
StopOf(p) ==
    IF \E k \in (p + 1)..Len(lines) :
           StartsWith(lines[k], PromptMarker) \/ StartsWith(lines[k], Bullet)
    THEN CHOOSE k \in (p + 1)..Len(lines) :
             /\ StartsWith(lines[k], PromptMarker) \/ StartsWith(lines[k], Bullet)
             /\ \A m \in (p + 1)..(k - 1) :
                    ~(StartsWith(lines[m], PromptMarker) \/ StartsWith(lines[m], Bullet))
    ELSE Len(lines) + 1

\* The lines between the prompt on line p and the line that stops it.
FollowingLines(p) == (p + 1)..(StopOf(p) - 1)

\* The prompt text of line p joined with its non-blank following lines.
JoinedPrompt(p) ==
    Accumulate(Substring(lines[p], 2), SubSeq(lines, p + 1, StopOf(p) - 1))

\* C27: the lines between a prompt line and the next line that begins with
\* the prompt marker or the bullet glyph are all absorbed by that prompt: the
\* user message it opens holds the prompt text joined by newlines with the
\* non-blank ones among them (trimmed as a whole) and the scan goes on at the
\* line that stopped the prompt, no message, code block or file change comes
\* from an absorbed line, and a step that absorbs a line leaves the open
\* message, the sections, inCodeBlock and the code buffer as they are, as
\* does the step that opens the user message for inCodeBlock and the code
\* buffer.
C27_PromptAbsorbsFollowing ==
    /\ [](pc = "done" =>
            \A p \in PromptLines :
                /\ \A k \in FollowingLines(p) : trace[k] = "absorbed"
                /\ \A m \in 1..Len(OutputMessages) :
                       OutputMessages[m].at \notin FollowingLines(p)
                /\ \A b \in 1..Len(AppendedBlocks) :
                       AppendedBlocks[b].at \notin FollowingLines(p)
                /\ \A c \in 1..Len(RecordedChanges) :
                       RecordedChanges[c].at \notin FollowingLines(p))
    /\ [][pc = "lookahead" =>
             /\ inCodeBlock' = inCodeBlock
             /\ codeBlockContent' = codeBlockContent
             /\ codeBlockLang' = codeBlockLang
             /\ pc' = "lookahead" =>
                    /\ currentMessage' = currentMessage
                    /\ sections' = sections
                    /\ currentSection' = currentSection
             /\ pc' = "scan" =>
                    /\ currentMessage' # None
                    /\ currentMessage'[1].type = "user"
                    /\ currentMessage'[1].at \in PromptLines
                    /\ i' = StopOf(currentMessage'[1].at)
                    /\ currentMessage'[1].content =
                           Trim(JoinedPrompt(currentMessage'[1].at))]_vars

\* C27 witness: a prompt has absorbed a thinking marker, a tool-result line
\* or a code fence together with a blank line.
C27_Witness ==
    /\ pc = "done"
    /\ \E p \in PromptLines :
           /\ \E k \in FollowingLines(p) :
                  \/ IsThinking(lines[k])
                  \/ Includes(lines[k], ResultGlyph)
                  \/ StartsWith(Trim(lines[k]), Fence)
           /\ \E k \in FollowingLines(p) : Trim(lines[k]) = <<>>
           /\ \E m \in 1..Len(OutputMessages) :
                  /\ OutputMessages[m].at = p
                  /\ Len(OutputMessages[m].content) > Len(Trim(Substring(lines[p], 2)))

\* The line of the first message of output section s, 0 for the first section.
SectionStart(s) == IF s = 1 THEN 0 ELSE sections[s].messages[1].at

\* The output section under construction when the scan reaches line q: the
\* last one that starts before q.
SectionAt(q) ==
    CHOOSE s \in 1..Len(sections) :
        /\ SectionStart(s) < q
        /\ \A t \in (s + 1)..Len(sections) : SectionStart(t) > q

\* C28: a closing fence appends its code block to the section under
\* construction and to no section closed before, so in the output a block
\* stands in the section that was current at its closing fence: when a new
\* section starts between the opening and the closing fence, in the new one.
C28_BlockInSectionOfClosingFence ==
    /\ [][(Scanning /\ inCodeBlock /\ trace'[i] = "fclose") =>
             /\ sections' = sections
             /\ Len(currentSection'.codeBlocks) = Len(currentSection.codeBlocks) + 1
             /\ currentSection'.codeBlocks[Len(currentSection'.codeBlocks)].at = i]_vars
    /\ [](pc = "done" =>
            \A s \in 1..Len(sections) :
                \A b \in 1..Len(sections[s].codeBlocks) :
                    /\ trace[sections[s].codeBlocks[b].at] = "fclose"
                    /\ s = SectionAt(sections[s].codeBlocks[b].at))

\* C28 witness: the output holds a block in a section that started between
\* the opening and the closing fence of the block.
C28_Witness ==
    /\ pc = "done"
    /\ \E s \in 2..Len(sections) :
           \E b \in 1..Len(sections[s].codeBlocks) :
               /\ OpeningOf(sections[s].codeBlocks[b].at) < SectionStart(s)
               /\ SectionStart(s) < sections[s].codeBlocks[b].at

\* A line that none of rules a-f takes.
PlainLine(line) ==
    /\ ~StartsWith(line, PromptMarker)
    /\ ~ToolPatternTest(line)
    /\ ~StartsWith(line, BulletSpace)
    /\ ~IsThinking(line)
    /\ ~Includes(line, ResultGlyph)
    /\ ~StartsWith(Trim(line), Fence)

\* The line has a character that is not whitespace.
HasVisible(line) == \E k \in 1..Len(line) : ~IsSpace(line[k])

\* The line starts with at least two spaces.
TwoSpaceIndent(line) == Len(line) >= 2 /\ line[1] = 32 /\ line[2] = 32

\* C29: outside a code block, when the main scan reaches a line that none of
\* rules a-f takes, the line is appended behind a newline to the open message
\* if a message is open, the line has a non-whitespace character and it
\* starts with two spaces; otherwise the open message is left as it is; in
\* both cases the sections, the section under construction, inCodeBlock, the
\* code buffer and the prompt buffer are left as they are.
C29_ContinuationFrame ==
    [][(Scanning /\ ~inCodeBlock /\ PlainLine(lines[i])) =>
          /\ currentMessage' =
                 IF currentMessage # None /\ HasVisible(lines[i]) /\ TwoSpaceIndent(lines[i])
                 THEN Some([currentMessage[1] EXCEPT
                                !.content = currentMessage[1].content \o Newline \o lines[i]])
                 ELSE currentMessage
          /\ sections' = sections
          /\ currentSection' = currentSection
          /\ inCodeBlock' = inCodeBlock
          /\ codeBlockContent' = codeBlockContent
          /\ codeBlockLang' = codeBlockLang
          /\ userInput' = userInput]_vars

\* C29 witness: with a message open, a line that has visible content but no
\* two leading spaces has been passed over.
C29_Witness ==
    /\ pc = "scan"
    /\ i > 1
    /\ trace[i - 1] = "skip"
    /\ HasVisible(lines[i - 1])
    /\ lines[i - 1][1] \in {9, 32}
    /\ currentMessage # None

\* The lines among the first HeaderLines that hold a path-shaped token.
PathLines ==
    {k \in 1..Len(Header(lines)) : PathTest(lines[k]) /\ PathMatch(lines[k]) # None}

\* C30: the projectPath of the metadata is the path-shaped token of the
\* earliest of the first 20 normalized lines that holds one, and the empty
\* string when none of them does.
C30_AsStated ==
    pc = "done" =>
        metadata[1].projectPath =
            IF PathLines = {} THEN <<>>
            ELSE PathMatch(lines[CHOOSE k \in PathLines : \A m \in PathLines : k <= m])[1]

\* The blocks the specification lists, each with its first and last code
\* point: emoticons, symbols and pictographs, transport and map symbols,
\* miscellaneous symbols, dingbats, variation selectors, supplemental symbols
\* and pictographs, regional indicators.
ListedBlocks ==
    {<<128512, 128591>>, <<127744, 128511>>, <<128640, 128767>>, <<9728, 9983>>,
     <<9984, 10175>>, <<65024, 65039>>, <<129280, 129535>>, <<127462, 127487>>}

InListedBlock(cp) == \E b \in ListedBlocks : b[1] <= cp /\ cp <= b[2]

\* Occurrences of the character cp in the content of the messages ms.
RECURSIVE OccurrencesInMessages(_, _)
OccurrencesInMessages(ms, cp) ==
    IF ms = <<>> THEN 0
    ELSE Occurrences(CodePoints(ms[1].content), cp) + OccurrencesInMessages(Tail(ms), cp)

\* The characters of the transcript.
RECURSIVE CharactersOf(_)
CharactersOf(ls) ==
    IF ls = <<>> THEN {}
    ELSE {CodePoints(ls[1])[k] : k \in 1..Len(CodePoints(ls[1]))} \cup CharactersOf(Tail(ls))

\* C31: in the returned statistics the keys of emojiCounts are the characters
\* of the listed blocks that occur in the content of some message of the
\* output, each with its number of occurrences over all message content; a
\* character outside the blocks is no key, no key has count 0, and
\* occurrences in code or in lines passed over are not counted.
C31_EmojiCounts ==
    pc = "done" =>
        /\ \A cp \in DOMAIN statistics[1].emojiCounts :
               /\ InListedBlock(cp)
               /\ statistics[1].emojiCounts[cp] > 0
               /\ statistics[1].emojiCounts[cp] = OccurrencesInMessages(OutputMessages, cp)
        /\ \A cp \in CharactersOf(lines) :
               (InListedBlock(cp) /\ OccurrencesInMessages(OutputMessages, cp) > 0)
                   => cp \in DOMAIN statistics[1].emojiCounts

\* C31 witness: a character of the blocks is counted more than once while a
\* further occurrence of it, in code or in a line passed over, is not.
C31_Witness ==
    /\ pc = "done"
    /\ 9728 \in DOMAIN statistics[1].emojiCounts
    /\ statistics[1].emojiCounts[9728] >= 2
    /\ \E k \in 1..Len(lines) :
           /\ trace[k] \in {"g", "skip"}
           /\ Occurrences(CodePoints(lines[k]), 9728) > 0
    /\ 129536 \notin DOMAIN statistics[1].emojiCounts
    /\ OccurrencesInMessages(OutputMessages, 129536) > 0

\* The kinds of message that the parser builds.
ParserKinds == {"user", "assistant", "thinking", "tool", "git"}

\* Every message held anywhere in the parser state: in a closed section, in
\* the section under construction, or open.
HeldMessages ==
    AllMessages(sections) \o currentSection.messages \o currentMessage

FirstPrompt == CHOOSE p \in PromptLines : \A q \in PromptLines : p <= q

C34_AsStated ==
    pc = "done" =>
        \A s \in 2..Len(sections) :
            /\ sections[s].messages[1].type = "user"
            /\ sections[s].messages[1].at \in PromptLines
            /\ \A m \in 1..Len(sections[s - 1].messages) :
                   sections[s - 1].messages[m].at < sections[s].messages[1].at
            /\ sections[s].title = TitleOfWords(sections[s].messages[1].content)

\* The text up to the first newline.
FirstLine(text) ==
    IF \E k \in 1..Len(text) : text[k] = 10
    THEN SubSeq(text, 1, (CHOOSE k \in 1..Len(text) :
                              text[k] = 10 /\ \A j \in 1..(k - 1) : text[j] # 10) - 1)
    ELSE text

\* The tool and git messages of ms that have a fileName, in order.
NamedInvocations(ms) ==
    SelectSeq(ms, LAMBDA m : m.type \in {"tool", "git"} /\ m.fileName # None)

\* C35: in every section of the output the FileChanges are, one for one and
\* in order, the tool and git messages of that section that have a fileName:
\* as many of the one as of the other, the i-th FileChange with the fileName
\* of the i-th such message and with the first line of its content as
\* details.
C35_ChangesBesideMessages ==
    pc = "done" =>
        \A s \in 1..Len(sections) :
            LET named == NamedInvocations(sections[s].messages)
                fcs   == sections[s].fileChanges
            IN  /\ Len(fcs) = Len(named)
                /\ \A c \in 1..Len(fcs) :
                       /\ fcs[c].fileName = named[c].fileName[1]
                       /\ fcs[c].details = FirstLine(named[c].content)

\* C35 witness: the output has two sections; the first holds a tool or git
\* message with a fileName and its FileChange, the second holds no
\* FileChange.
C35_Witness ==
    /\ pc = "done"
    /\ Len(sections) = 2
    /\ Len(sections[1].fileChanges) = 1
    /\ sections[2].fileChanges = <<>>
    /\ sections[1].messages[1].type \in {"tool", "git"}

\* C36: every message of kind tool in the output has a toolName of the closed
\* set of recognized tool names, and every message of kind git has toolName
\* 'Git' and isGitAction true.
C36_AsStated ==
    pc = "done" =>
        \A m \in 1..Len(OutputMessages) :
            /\ OutputMessages[m].type = "tool" =>
                   /\ OutputMessages[m].toolName # None
                   /\ OutputMessages[m].toolName[1] \in ToolNames
            /\ OutputMessages[m].type = "git" =>
                   /\ OutputMessages[m].toolName = Some(GitName)
                   /\ OutputMessages[m].isGitAction = Some(TRUE)

\* Every FileChange held anywhere in the parser state: in a closed section or
\* in the section under construction.
HeldChanges == ChangesOf(sections) \o currentSection.fileChanges

\* C37: in every reachable state each FileChange the parser holds has type
\* read, update or search; none has type create.
C37_NoCreateChange ==
    \A c \in 1..Len(HeldChanges) :
        /\ HeldChanges[c].type # "create"
        /\ HeldChanges[c].type \in {"read", "update", "search"}

\* C37 witness: the FileChange of a Write invocation is held, with type
\* update.
C37_Witness ==
    \E c \in 1..Len(HeldChanges) :
        /\ StartsWith(lines[HeldChanges[c].at], BulletSpace \o <<87, 114, 105, 116, 101, 40>>)
        /\ HeldChanges[c].type = "update"

\* No line of the input contains 'thinking' in any letter case.
NoThinkingWord ==
    \A k \in 1..Len(content) : ~Includes(LowerStr(content[k]), ThinkingWord)

\* The counters of a statistics record other than the emoji map.
Counters(st) ==
    <<st.userMessages, st.assistantMessages, st.thinkingMessages, st.toolMessages,
      st.gitMessages, st.filesModified, st.codeBlocksCount>>

\* C38: on an input in which no line contains 'thinking' in any letter case,
\* the parser of src/unnamed/part_000 returns the section list that the parser
\* of src/src/transformer.ts returns (titles, messages, code blocks and file
\* changes), and the same per-kind message counts, filesModified and
\* codeBlocksCount.
C38_VariantsAgree ==
    (pc = "done" /\ variant = 2 /\ NoThinkingWord) =>
        /\ sections = firstResult[1].sections
        /\ Counters(statistics[1]) = Counters(firstResult[1].statistics)

\* C38 witness: both parsers have returned the same two sections for an input
\* without the word, and their emoji maps differ.
C38_Witness ==
    /\ pc = "done"
    /\ variant = 2
    /\ NoThinkingWord
    /\ Len(sections) = 2
    /\ sections = firstResult[1].sections
    /\ statistics[1].emojiCounts # firstResult[1].statistics.emojiCounts

\* The code-body lines from line r up to, not including, line q, each with
\* its newline.
RECURSIVE CodeBetween(_, _)
CodeBetween(r, q) ==
    IF r >= q THEN <<>>
    ELSE (IF trace[r] = "g" THEN lines[r] \o Newline ELSE <<>>) \o CodeBetween(r + 1, q)

\* C39: whenever inCodeBlock is false the code buffer is empty; the buffer
\* changes only while inCodeBlock is true, by the append of a line with its
\* newline or by the reset at a closing fence; and the code of every
\* CodeBlock is the trimmed text of the code-body lines between its own
\* opening and closing fence, with nothing of an earlier block or of a line
\* outside the pair.
C39_BufferEmptyOutsideBlock ==
    /\ [](~inCodeBlock => codeBlockContent = <<>>)
    /\ [][codeBlockContent' # codeBlockContent =>
             /\ inCodeBlock
             /\ \/ inCodeBlock' /\ codeBlockContent' = codeBlockContent \o lines[i] \o Newline
                \/ ~inCodeBlock' /\ codeBlockContent' = <<>> /\ trace'[i] = "fclose"]_vars
    /\ [](\A b \in 1..Len(AppendedBlocks) :
             AppendedBlocks[b].code =
                 Trim(CodeBetween(OpeningOf(AppendedBlocks[b].at) + 1, AppendedBlocks[b].at)))

\* C39 witness: a block with code has been closed, and a second block closed
\* after it is empty.
C39_Witness ==
    /\ ~inCodeBlock
    /\ codeBlockContent = <<>>
    /\ Len(AppendedBlocks) = 2
    /\ AppendedBlocks[1].code # <<>>
    /\ AppendedBlocks[2].code = <<>>

====
